---- MODULE Spec2Model ----
(***************************************************************************)
(* Request dispatch engine of the mock server (src-tauri/src/server.rs)    *)
(* and the registry commands of the desktop shell (src-tauri/src/lib.rs).  *)
(*                                                                         *)
(* A Rust String is a sequence of one-character strings, so that           *)
(* format!, starts_with, ends_with, trim_*_matches and to_uppercase are    *)
(* computed character by character.  Two kinds of text are kept as one     *)
(* token: the fixed message prefixes of the server ("Not Found: ", ...)    *)
(* and the statements of a route script (the interpreter is boa; a script  *)
(* is the sequence of host calls it makes and the way it ends).            *)
(***************************************************************************)
EXTENDS Integers, Sequences, FiniteSets, TLC

\* mocks, logs, logs_lock: the shared state of AppState
\* pc, req, mock, target, resp, rec: the place and the locals of each task running handler
\* inflight: the tasks with a request in flight, in the order their requests arrived
\* nreq, npush, nret: requests received, records inserted, responses returned
\* db_connections, db_lock: the pools of AppState by name, and who holds their lock
\* db: the rows of the table, in each database a pool can connect to
\* ctx: the interpreter of the script each task runs
\* out, notified: the response each task returned last, and what became of its notification
\* config: the binding config of AppState
\* server: the server tasks spawned, in the order of their spawning, and the start and
\*         restart commands that have sent the signal and sleep
\* sent: the requests each task has sent to its upstream
\* seen: the outcomes the matcher's rules give for the request of each task on the
\*       registries there have been since it was received, while it is being matched
VARIABLES mocks, logs, logs_lock, pc, req, mock, target, resp, rec, inflight, nreq, npush, nret,
          db_connections, db_lock, db, ctx, out, notified, config, server, sent, seen

vars == <<mocks, logs, logs_lock, pc, req, mock, target, resp, rec, inflight, nreq, npush, nret,
          db_connections, db_lock, db, ctx, out, notified, config, server, sent, seen>>

----------------------------------------------------------------------------
(* Bounds *)

\* requests received in one run of Spec
MaxReqs == 1
\* requests received in one run of LogSpec
MaxLogReqs == 102
\* characters of a request path in ProxySpec
MaxPathLen == 4
\* registry entries in ProxySpec
MaxProxyMocks == 2
\* setStatusCode calls of a script in StatusSpec
MaxCalls == 2
\* requests received in one run of ScriptSpec
MaxScriptReqs == 2
\* server tasks spawned, and start and restart commands begun, in one run of ServerSpec
\* and LifeSpec
MaxInstances == 3
\* columns of a fetched row in DecodeSpec
MaxCols == 2

----------------------------------------------------------------------------
(* Text *)

None == << >>
Some(x) == << x >>

Range(s) == { s[i] : i \in 1..Len(s) }

StartsWith(s, p) == Len(p) <= Len(s) /\ SubSeq(s, 1, Len(p)) = p

EndsWith(s, c) == Len(s) > 0 /\ s[Len(s)] = c

RECURSIVE TrimEnd(_, _)
TrimEnd(s, c) == IF Len(s) > 0 /\ s[Len(s)] = c THEN TrimEnd(SubSeq(s, 1, Len(s) - 1), c) ELSE s

RECURSIVE TrimStart(_, _)
TrimStart(s, c) == IF Len(s) > 0 /\ s[1] = c THEN TrimStart(Tail(s), c) ELSE s

UpperOf == ("a" :> "A") @@ ("n" :> "N") @@ ("y" :> "Y") @@ ("g" :> "G") @@ ("e" :> "E") @@ ("t" :> "T")

ToUppercase(s) == [i \in 1..Len(s) |-> IF s[i] \in DOMAIN UpperOf THEN UpperOf[s[i]] ELSE s[i]]

KeyOf(method, path) == method \o <<" ">> \o path

GET == <<"G", "E", "T">>
POST == <<"P", "O", "S", "T">>
ANY == <<"A", "N", "Y">>

----------------------------------------------------------------------------
(* Values the program is given *)

P_ab == <<"/", "a", "/", "b">>
P_c == <<"/", "c">>
P_aStar == <<"/", "a", "/", "*">>
P_Star == <<"/", "*">>

U_slash == <<"u", "/">>
U_v == <<"v">>

J_spaced == <<"{", " ", "}">>
J_bad == <<"{", "n">>

Js_ok == <<"setStatusCode(201)", "return {ok:true}">>
Js_throw == <<"setStatusCode(201)", "throw boom">>

MockInput(path, method, response_body, status_code, response_type) ==
    [path |-> path, method |-> method, response_body |-> response_body,
     status_code |-> status_code, response_type |-> response_type]

\* the arguments add_mock_api and update_mock_api are called with
AddInputs ==
    { MockInput(P_ab, GET, J_spaced, 201, "json"),
      MockInput(P_ab, GET, J_bad, 99, "json"),
      MockInput(P_ab, <<"g", "e", "t">>, Js_ok, 200, "js"),
      MockInput(P_ab, GET, Js_throw, 200, "js"),
      MockInput(P_ab, GET, U_slash, 200, "proxy"),
      MockInput(P_ab, <<"a", "n", "y">>, <<"x">>, 201, "raw"),
      MockInput(<<"a", "/", "*">>, ANY, U_slash, 200, "proxy"),
      MockInput(P_Star, GET, U_v, 200, "proxy"),
      MockInput(P_aStar, GET, <<"h">>, 200, "html") }

\* the arguments update_mock_api is called with, besides the id
UpdateInputs ==
    { MockInput(P_ab, GET, J_spaced, 201, "json"),
      MockInput(<<"a", "/", "*">>, ANY, U_slash, 200, "proxy") }

\* the ids remove_mock_api and update_mock_api are called with: a key of the registry,
\* or one that is not in it
Ids == DOMAIN mocks \cup { KeyOf(GET, P_c) }

\* the requests the server is sent
Requests == { <<GET, P_ab>>, <<POST, P_ab>>, <<GET, P_c>> }

\* what the upstream of a proxied request may answer
UpstreamStatuses == { 204 }

\* the bytes an upstream may answer with: text, or a byte that begins no UTF-8 character
B_ff == "<FF>"
UpstreamBodies == { <<"o", "k">>, <<"o", B_ff>> }

\* what may become of the notification: no observer is registered, emit succeeds, emit fails
EmitOutcomes == { "no observer", "emitted", "emit failed" }

\* the values ProxySpec is given: proxy definitions by prefix and by exact key, and
\* every path of '/' and 'a' that begins with '/'
P_api == <<"/", "a", "p", "i", "/", "*">>
U_upstream == <<"h", "t", "t", "p", ":", "/", "/", "u", "p", "s", "t", "r", "e", "a", "m", ":", "9", "0", "0", "0">>
P_users == <<"/", "a", "p", "i", "/", "u", "s", "e", "r", "s", "/", "5">>

ProxyInputs ==
    { MockInput(P_Star, ANY, <<"u", "/", "/">>, 200, "proxy"),
      MockInput(P_aStar, ANY, U_slash, 200, "proxy"),
      MockInput(P_aStar, ANY, <<"u">>, 200, "proxy"),
      MockInput(<<"a", "*">>, GET, << >>, 200, "proxy"),
      MockInput(P_api, ANY, U_upstream, 200, "proxy"),
      MockInput(<<"/", "a">>, ANY, U_slash, 200, "proxy"),
      MockInput(<<"/", "a", "/">>, GET, U_v, 200, "proxy") }

ProxyPaths ==
    { <<"/">> \o s : s \in UNION { [1..n -> {"/", "a"}] : n \in 0..(MaxPathLen - 1) } }
        \cup { P_users }

\* the values ForwardSpec is given: a proxy by exact key and one by prefix; requests with
\* a host header, with a name that has two values, with a body; an upstream that answers
\* with no header, with one, with a name that has two values
ForwardInputs ==
    { MockInput(<<"/", "a">>, ANY, U_slash, 200, "proxy"),
      MockInput(P_api, ANY, U_upstream, 200, "proxy") }

ForwardRequests == { <<GET, <<"/", "a">> >>, <<POST, P_users>> }

H_host == <<"host", "mock:3000">>

RequestHeaders ==
    { << >>,
      << H_host >>,
      << <<"accept", "a">>, H_host, <<"accept", "b">> >> }

RequestBodies == { << >>, <<"b">> }

UpstreamHeaders ==
    { << >>,
      << <<"content-type", "application/json">> >>,
      << <<"set-cookie", "a=1">>, <<"x-id", "7">>, <<"set-cookie", "b=2">> >> }

\* the values StaticSpec is given: a definition of each static type for every status_code
\* a u16 holds; json with a body that does not parse, and one that does
MaxU16 == 65535
J_notjson == <<"{", "n", "o", "t", " ", "v", "a", "l", "i", "d", " ", "j", "s", "o", "n">>
StaticTypes == { "json", "html", "raw", "text" }

\* the definition of a static type, its body no JSON document
StaticInput(status_code, response_type) ==
    MockInput(P_ab, GET, J_notjson, status_code, response_type)

\* json definitions whose body is a JSON document
JsonInputs ==
    { MockInput(P_ab, GET, J_spaced, status_code, "json") :
          status_code \in {0, 99, 100, 201, 999, 1000, MaxU16} }

Tasks == { 1 }
LogTasks == { 1, 2 }

----------------------------------------------------------------------------
(* server.rs: the matcher and the proxy target *)

\* the ANY key tried before the key of the request's own method
ExactMatch_AnyFirst(registry, method, path) ==
    IF KeyOf(ANY, path) \in DOMAIN registry THEN Some(registry[KeyOf(ANY, path)])
    ELSE IF KeyOf(method, path) \in DOMAIN registry THEN Some(registry[KeyOf(method, path)])
    ELSE None

\* the ANY key never tried
ExactMatch_NoAny(registry, method, path) ==
    IF KeyOf(method, path) \in DOMAIN registry THEN Some(registry[KeyOf(method, path)])
    ELSE None

ExactMatch(registry, method, path) ==
    IF KeyOf(method, path) \in DOMAIN registry THEN Some(registry[KeyOf(method, path)])
    ELSE IF KeyOf(ANY, path) \in DOMAIN registry THEN Some(registry[KeyOf(ANY, path)])
    ELSE None

WildcardPrefix(m) == SubSeq(m.path, 1, Len(m.path) - 1)

\* the response_type of the definition not looked at
Eligible_AnyType(m, method, path) ==
    /\ EndsWith(m.path, "*")
    /\ (m.method = ANY \/ m.method = method)
    /\ StartsWith(path, WildcardPrefix(m))

Eligible(m, method, path) ==
    /\ m.response_type = "proxy"
    /\ EndsWith(m.path, "*")
    /\ (m.method = ANY \/ m.method = method)
    /\ StartsWith(path, WildcardPrefix(m))

\* find_map over HashMap::values(): the first hit of an iteration in no set order
ProxyMatches(registry, method, path) ==
    { registry[k] : k \in { k \in DOMAIN registry : Eligible(registry[k], method, path) } }

\* the request path appended to the target of an exact hit
ExactTarget_WithPath(m, path) == m.response_body \o path

\* an exact hit on a proxy definition forwards to its response_body as it stands
ExactTarget(m, path) == m.response_body

\* one trailing and one leading '/' trimmed, not all of them
WildcardTarget_TrimOne(target_base, path, prefix_len) ==
    LET suffix == SubSeq(path, prefix_len + 1, Len(path))
        target_base_trimmed ==
            IF EndsWith(target_base, "/") THEN SubSeq(target_base, 1, Len(target_base) - 1)
            ELSE target_base
        suffix_trimmed == IF StartsWith(suffix, <<"/">>) THEN Tail(suffix) ELSE suffix
    IN  IF suffix_trimmed = << >> THEN target_base_trimmed
        ELSE target_base_trimmed \o <<"/">> \o suffix_trimmed

WildcardTarget(target_base, path, prefix_len) ==
    LET suffix == SubSeq(path, prefix_len + 1, Len(path))
        target_base_trimmed == TrimEnd(target_base, "/")
        suffix_trimmed == TrimStart(suffix, "/")
    IN  IF suffix_trimmed = << >> THEN target_base_trimmed
        ELSE target_base_trimmed \o <<"/">> \o suffix_trimmed

\* what the rules of the matcher give for a request on one registry: the definition of
\* the exact lookup, or else one of the eligible wildcard proxies, or else none (404)
Outcomes(registry, method, path) ==
    IF ExactMatch(registry, method, path) # None THEN { ExactMatch(registry, method, path) }
    ELSE IF ProxyMatches(registry, method, path) # {}
         THEN { Some(m) : m \in ProxyMatches(registry, method, path) }
         ELSE { None }

\* the registry has become another one: each request whose matching is observed has one
\* more registry in its time
Observed(registry) ==
    [t \in DOMAIN seen |->
        IF pc[t] \in {"received", "scan"} /\ seen[t] # {}
        THEN seen[t] \cup Outcomes(registry, req[t].method, req[t].path)
        ELSE seen[t]]

----------------------------------------------------------------------------
(* lib.rs: the route registry commands *)

\* a path stored as it is given
NormalizePath_Kept(path) == path

\* if path.starts_with('/') { path } else { format!("/{}", path) }
NormalizePath(path) == IF StartsWith(path, <<"/">>) THEN path ELSE <<"/">> \o path

NewMock(in) ==
    LET method == ToUppercase(in.method)
        path == NormalizePath(in.path)
        key == KeyOf(method, path)
    IN  [id |-> key, path |-> path, method |-> method, response_body |-> in.response_body,
         status_code |-> in.status_code, response_type |-> in.response_type]

\* an insert that keeps the entry the map has under the key
Insert_KeepFirst(m, key, v) == IF key \in DOMAIN m THEN m ELSE [k \in DOMAIN m \cup {key} |-> v]

Insert(m, key, v) == [k \in DOMAIN m \cup {key} |-> IF k = key THEN v ELSE m[k]]

\* a removal that leaves the map as it is
Remove_Kept(m, key) == m

\* mocks.remove(&id)
Remove(m, key) == [k \in DOMAIN m \ {key} |-> m[k]]

add_mock_api(in) ==
    /\ mocks' = Insert(mocks, NewMock(in).id, NewMock(in))
    /\ seen' = Observed(Insert(mocks, NewMock(in).id, NewMock(in)))
    /\ UNCHANGED <<logs, logs_lock, pc, req, mock, target, resp, rec, inflight, nreq, npush, nret,
                 db_connections, db_lock, db, ctx, out, notified,
                 config, server, sent>>

remove_mock_api(id) ==
    /\ mocks' = Remove(mocks, id)
    /\ seen' = Observed(Remove(mocks, id))
    /\ UNCHANGED <<logs, logs_lock, pc, req, mock, target, resp, rec, inflight, nreq, npush, nret,
                 db_connections, db_lock, db, ctx, out, notified,
                 config, server, sent>>

update_mock_api(id, in) ==
    /\ mocks' = Insert(Remove(mocks, id), NewMock(in).id, NewMock(in))
    /\ seen' = Observed(Insert(Remove(mocks, id), NewMock(in).id, NewMock(in)))
    /\ UNCHANGED <<logs, logs_lock, pc, req, mock, target, resp, rec, inflight, nreq, npush, nret,
                 db_connections, db_lock, db, ctx, out, notified,
                 config, server, sent>>

\* add_db_connection, once connect(&url) has answered: the pool is stored under the lock
\* of the map, and the guard lives on while the file of connections is read and written
add_db_connection(name, url) ==
    /\ db_lock = "free"
    /\ db_lock' = "add_db_connection"
    /\ db_connections' = Insert(db_connections, name, url)
    /\ UNCHANGED <<mocks, logs, logs_lock, pc, req, mock, target, resp, rec, inflight, nreq, npush,
                 nret, db, ctx, out, notified,
                 config, server, sent, seen>>

\* remove_db_connection: the same guard, held to the end of the command
remove_db_connection(name) ==
    /\ db_lock = "free"
    /\ db_lock' = "remove_db_connection"
    /\ db_connections' = Remove(db_connections, name)
    /\ UNCHANGED <<mocks, logs, logs_lock, pc, req, mock, target, resp, rec, inflight, nreq, npush,
                 nret, db, ctx, out, notified,
                 config, server, sent, seen>>

\* load_db_configs and save_db_configs are done: the command returns and drops the guard
save_db_configs ==
    /\ db_lock # "free"
    /\ db_lock' = "free"
    /\ UNCHANGED <<mocks, logs, logs_lock, pc, req, mock, target, resp, rec, inflight, nreq, npush,
                 nret, db_connections, db, ctx, out, notified,
                 config, server, sent, seen>>

----------------------------------------------------------------------------
(* lib.rs and server.rs: the binding config and the server task *)

\* ServerConfig::default()
DefaultConfig == [port |-> 3000, host |-> "127.0.0.1", running |-> TRUE]

\* the configs update_server_config is called with
Configs == { [port |-> port, host |-> "127.0.0.1", running |-> running] :
                port \in {3000, 3001}, running \in BOOLEAN }

\* update_server_config: the config of AppState is replaced and saved; no server task is
\* started or stopped
update_server_config(new_config) ==
    /\ config' = new_config
    /\ UNCHANGED <<mocks, logs, logs_lock, pc, req, mock, target, resp, rec, inflight, nreq, npush,
                 nret, db_connections, db_lock, db, ctx, out, notified, server, sent, seen>>

\* a server task: what has become of it, the port it listens on, and the shutdown
\* messages its receiver holds (2: the channel holds one message, the receiver has lagged)
Instance(status, port, rx) == [status |-> status, port |-> port, rx |-> rx]

\* a task whose receiver is alive: start_server has not returned
Alive(task) == task.status \in {"spawned", "listening"}

\* the tasks whose listener accepts connections
Listening(tasks) == { i \in DOMAIN tasks : tasks[i].status = "listening" }

\* shutdown_tx.send(()): the message is queued for every receiver there is; with no
\* receiver the send fails and the error is dropped
send(tasks) ==
    [i \in DOMAIN tasks |->
        IF Alive(tasks[i]) THEN [tasks[i] EXCEPT !.rx = IF @ = 0 THEN 1 ELSE 2] ELSE tasks[i]]

\* let rx = shutdown_tx.subscribe(); spawn(start_server(state, rx)): the receiver sees
\* the messages sent from now on
spawn(tasks) == Append(tasks, Instance("spawned", 0, 0))

\* the commands that have sent the signal and sleep their 500 ms, without the k-th
Without(cmds, k) == SubSeq(cmds, 1, k - 1) \o SubSeq(cmds, k + 1, Len(cmds))

\* stop_server: the signal is sent, nothing is spawned
stop_server ==
    /\ server' = [server EXCEPT !.tasks = send(@)]
    /\ UNCHANGED <<mocks, logs, logs_lock, pc, req, mock, target, resp, rec, inflight, nreq, npush,
                 nret, db_connections, db_lock, db, ctx, out, notified, config, sent, seen>>

\* start_server_cmd, up to its sleep: the signal is sent
start_server_cmd ==
    /\ Len(server.tasks) + Len(server.cmds) < MaxInstances
    /\ server' = [tasks |-> send(server.tasks), cmds |-> Append(server.cmds, "start_server_cmd")]
    /\ UNCHANGED <<mocks, logs, logs_lock, pc, req, mock, target, resp, rec, inflight, nreq, npush,
                 nret, db_connections, db_lock, db, ctx, out, notified, config, sent, seen>>

\* restart_server, up to its sleep: the signal is sent
restart_server ==
    /\ Len(server.tasks) + Len(server.cmds) < MaxInstances
    /\ server' = [tasks |-> send(server.tasks), cmds |-> Append(server.cmds, "restart_server")]
    /\ UNCHANGED <<mocks, logs, logs_lock, pc, req, mock, target, resp, rec, inflight, nreq, npush,
                 nret, db_connections, db_lock, db, ctx, out, notified, config, sent, seen>>

\* a restart that spawns whatever the config says
ShouldStart_Always(cmd, cfg) == TRUE

\* start_server_cmd spawns; restart_server reads the config and spawns if config.running
ShouldStart(cmd, cfg) == cmd = "start_server_cmd" \/ cfg.running

\* the sleep of the k-th command is over: it subscribes and spawns start_server, or,
\* a restart with running false, returns
Wake(k) ==
    /\ k \in DOMAIN server.cmds
    /\ server' = [tasks |-> IF ShouldStart(server.cmds[k], config)
                            THEN spawn(server.tasks) ELSE server.tasks,
                  cmds |-> Without(server.cmds, k)]
    /\ UNCHANGED <<mocks, logs, logs_lock, pc, req, mock, target, resp, rec, inflight, nreq, npush,
                 nret, db_connections, db_lock, db, ctx, out, notified, config, sent, seen>>

\* a server task that serves whether its bind succeeded or not
Bind_Always(ok) == "listening"

\* TcpListener::bind(&addr): Ok and the task serves, or Err, which is printed, and the
\* task returns
Bind(ok) == IF ok THEN "listening" ELSE "bind failed"

\* the address has a listener of this process
InUse(tasks, port) == \E j \in Listening(tasks) : tasks[j].port = port

\* start_server, in the i-th task spawned: the config is read and the address bound;
\* whether it can be bound is for the system to say, an address in use cannot
start_server(i, ok) ==
    /\ i \in DOMAIN server.tasks
    /\ server.tasks[i].status = "spawned"
    /\ ok => ~InUse(server.tasks, config.port)
    /\ server' = [server EXCEPT !.tasks[i] =
                     IF Bind(ok) = "listening"
                     THEN Instance("listening", config.port, @.rx)
                     ELSE Instance(Bind(ok), 0, 0)]
    /\ UNCHANGED <<mocks, logs, logs_lock, pc, req, mock, target, resp, rec, inflight, nreq, npush,
                 nret, db_connections, db_lock, db, ctx, out, notified, config, sent, seen>>

\* a shutdown future that waits for a message it can read
Completes_OkOnly(rx) == rx = 1

\* shutdown_rx.recv().await.ok(): the future completes when recv gives the message, and
\* when it gives Err(Lagged)
Completes(rx) == rx > 0

\* with_graceful_shutdown: the signal has come, the i-th task stops accepting and
\* start_server returns
graceful_shutdown(i) ==
    /\ i \in DOMAIN server.tasks
    /\ server.tasks[i].status = "listening"
    /\ Completes(server.tasks[i].rx)
    /\ server' = [server EXCEPT !.tasks[i] = Instance("stopped", 0, 0)]
    /\ UNCHANGED <<mocks, logs, logs_lock, pc, req, mock, target, resp, rec, inflight, nreq, npush,
                 nret, db_connections, db_lock, db, ctx, out, notified, config, sent, seen>>

----------------------------------------------------------------------------
(* server.rs: responses *)

\* a validity without its lower end
ValidStatus_NoFloor(n) == n < 1000

\* StatusCode::from_u16 accepts 100..=999
ValidStatus(n) == n >= 100 /\ n < 1000

\* no default for a status_code that is no HTTP status
StatusOrOk_Raw(status_code) == status_code

StatusOrOk(status_code) == IF ValidStatus(status_code) THEN status_code ELSE 200

\* a response: its status, its content-type, its other headers as name and value pairs,
\* its body
Response(status, ctype, body) ==
    [status |-> status, ctype |-> ctype, headers |-> {}, body |-> body]

NoResp == Response(0, "", << >>)
NoReq == [method |-> << >>, path |-> << >>, headers |-> << >>, body |-> << >>]
NoRec == [id |-> 0, method |-> << >>, path |-> << >>, status_code |-> 0, response_body |-> << >>]

\* serde_json::from_str: white space between the tokens of a document is skipped;
\* the documents told apart here are {}, [] and a one-digit number
JsonForms == { <<"{", "}">>, <<"[", "]">>, <<"1">> }

JsonCompact(s) == SelectSeq(s, LAMBDA c : c # " ")

\* a parser that takes every text for a document
JsonParse_Lenient(s) == Some(JsonCompact(s))

JsonParse(s) == IF JsonCompact(s) \in JsonForms THEN Some(JsonCompact(s)) ELSE None

\* serde_json::to_vec, as Json(..).into_response() writes the value
JsonSerialize(v) == v

StaticResponse(m) ==
    LET status == StatusOrOk(m.status_code)
        parsed == JsonParse(m.response_body)
    IN  CASE m.response_type = "json" ->
                IF parsed # None
                THEN Response(status, "application/json", JsonSerialize(parsed[1]))
                ELSE Response(status, "text/plain", m.response_body)
          [] m.response_type = "html" -> Response(status, "text/html", m.response_body)
          [] OTHER -> Response(status, "text/plain", m.response_body)

\* the 404 that does not name the key
NotFound_NoKey(key) == Response(404, "text/plain", <<"Not Found: ">>)

NotFound(key) == Response(404, "text/plain", <<"Not Found: ">> \o key)

JsError(e) == Response(500, "text/plain", <<"JS Error: ">> \o e)

ProxyError(e) == Response(502, "text/plain", <<"Proxy Error: ">> \o e)

----------------------------------------------------------------------------
(* server.rs: the script sandbox *)

\* the names a script calls the database by: a registered one, one that is not, and one
\* that is an unpaired surrogate, text of the interpreter that is no Rust String
N_main == <<"m", "a", "i", "n">>
\* the databases a connection can be made to: a pool is known by the url it connects to
D_main == "sqlite://main.db"
D_other == "sqlite://other.db"
Databases == { D_main, D_other }
\* no pool is held
NoPool == ""
N_missing == <<"m", "i", "s", "s", "i", "n", "g">>
C_lone == "<D800>"
N_lone == << C_lone >>

\* the decimal text of a small number
Digits == <<"0", "1", "2", "3", "4", "5", "6", "7", "8", "9">>
ToText(n) == IF n < 10 THEN << Digits[n + 1] >> ELSE << Digits[(n \div 10) + 1], Digits[(n % 10) + 1] >>

\* JsString::to_std_string(): Err for text that is not well-formed UTF-16
to_std_string(s) == IF C_lone \in Range(s) THEN None ELSE Some(s)

\* the argument of each response.setStatusCode call a script makes, when it is a whole
\* number
StatusArg ==
    ("setStatusCode(201)" :> 201) @@ ("setStatusCode(42)" :> 42)
    @@ ("setStatusCode(404)" :> 404) @@ ("setStatusCode(99)" :> 99)
    @@ ("setStatusCode(100)" :> 100) @@ ("setStatusCode(999)" :> 999)
    @@ ("setStatusCode(1000)" :> 1000) @@ ("setStatusCode(-1)" :> (0 - 1))
    @@ ("setStatusCode(65736)" :> 65736)

\* the whole part of the argument, when it is a number with a fraction
FractionArg == ("setStatusCode(201.9)" :> 201)

\* the arguments that are no finite number, or are missing
OtherArg ==
    ("setStatusCode(NaN)" :> "NaN") @@ ("setStatusCode('404')" :> "string")
    @@ ("setStatusCode()" :> "missing")

IsSetStatus(st) == st \in DOMAIN StatusArg \cup DOMAIN FractionArg \cup DOMAIN OtherArg

\* a cast that wraps around
AsU16_Wrapping(x) == x % 65536

\* `code as u16` of a float without its fraction: the cast saturates
AsU16(x) == IF x < 0 THEN 0 ELSE IF x > 65535 THEN 65535 ELSE x

\* args.get(0), as_number() and the cast; NaN is cast to 0
CodeAsU16(st) ==
    CASE st \in DOMAIN StatusArg -> Some(AsU16(StatusArg[st]))
      [] st \in DOMAIN FractionArg -> Some(AsU16(FractionArg[st]))
      [] st \in DOMAIN OtherArg /\ OtherArg[st] = "NaN" -> Some(0)
      [] OTHER -> None

\* the values StatusSpec is given: the scripts that call setStatusCode up to MaxCalls
\* times, with any of the arguments, and return an object; the default is a status or not
SetCalls == DOMAIN StatusArg \cup DOMAIN FractionArg \cup DOMAIN OtherArg

StatusScripts ==
    { calls \o <<"return {ok:true}">> : calls \in UNION { [1..n -> SetCalls] : n \in 0..MaxCalls } }

StatusInputs ==
    { MockInput(P_ab, GET, code, status_code, "js") : code \in StatusScripts, status_code \in {200, 99} }

\* the value each return statement yields: a string with its text, an object with
\* its JSON text, or another primitive with the text the language gives it
ReturnValue ==
    ("return {ok:true}" :> [kind |-> "object", text |-> <<"{", "ok", ":", "true", "}">>])
    @@ ("return '{ }'" :> [kind |-> "string", text |-> J_spaced])
    @@ ("return 'x'" :> [kind |-> "string", text |-> <<"x">>])
    @@ ("return 42" :> [kind |-> "integer", text |-> <<"4", "2">>])
    @@ ("return 1.5" :> [kind |-> "rational", text |-> <<"1", ".", "5">>])
    @@ ("return true" :> [kind |-> "boolean", text |-> <<"true">>])
    @@ ("return null" :> [kind |-> "null", text |-> <<"null">>])
    @@ ("return undefined" :> [kind |-> "undefined", text |-> <<"undefined">>])

\* the value of a script that ends without a return
JsUndefined == [kind |-> "undefined", text |-> <<"undefined">>]

\* format!("{:?}", res): the Debug text of the interpreter's value, the variant's name
\* and its payload
Debug(v) ==
    CASE v.kind = "integer" -> <<"Integer(">> \o v.text \o <<")">>
      [] v.kind = "rational" -> <<"Rational(">> \o v.text \o <<")">>
      [] v.kind = "boolean" -> <<"Boolean(">> \o v.text \o <<")">>
      [] v.kind = "null" -> <<"Null">>
      [] v.kind = "undefined" -> <<"Undefined">>
      [] OTHER -> v.text

Thrown == ("throw boom" :> <<"boom">>)

\* the statements that call db.query or db.execute: the function, the connection name,
\* whether the call stands in a try block with an empty catch, whether its value is returned
DbStatement(fn, name, caught, returned) ==
    [fn |-> fn, name |-> name, caught |-> caught, returned |-> returned]

DbCall ==
    ("db.execute('main','INSERT')" :> DbStatement("execute", N_main, FALSE, FALSE))
    @@ ("return db.query('main','SELECT')" :> DbStatement("query", N_main, FALSE, TRUE))
    @@ ("db.query('missing','SELECT 1')" :> DbStatement("query", N_missing, FALSE, FALSE))
    @@ ("db.execute('missing','DELETE')" :> DbStatement("execute", N_missing, FALSE, FALSE))
    @@ ("try{db.query('missing','SELECT 1')}catch(e){}" :> DbStatement("query", N_missing, TRUE, FALSE))
    @@ ("db.query('<D800>','SELECT 1')" :> DbStatement("query", N_lone, FALSE, FALSE))
    @@ ("db.execute('main','UPDATE')" :> DbStatement("execute", N_main, FALSE, FALSE))
    @@ ("db.query('main','JOIN')" :> DbStatement("query", N_main, FALSE, FALSE))

\* a u64 as its four 16-bit limbs, the highest first
U64(l3, l2, l1, l0) == <<l3, l2, l1, l0>>

One == U64(0, 0, 0, 1)

\* the counts rows_affected() is given to report for an UPDATE: none, one, the two
\* sides of 2^31 and of 2^32, and the largest
RowCounts ==
    { U64(0, 0, 0, 0), One, U64(0, 0, (MaxU16 - 1) \div 2, MaxU16),
      U64(0, 0, (MaxU16 + 1) \div 2, 0), U64(0, 0, MaxU16, MaxU16), U64(0, 1, 0, 0),
      U64(0, 1, 0, 1), U64(MaxU16, MaxU16, MaxU16, MaxU16) }

\* what the engine may report for a statement: an INSERT of one row affects one row
Affected(st) == IF st = "db.execute('main','UPDATE')" THEN RowCounts ELSE { One }

\* the rows the table has after the statement
Written(st, rows) == IF st = "db.execute('main','UPDATE')" THEN rows ELSE rows + 1

\* the types try_get is asked for, in the order query_fn asks
Probes == <<"String", "i64", "f64", "bool", "i16", "i32">>

\* a column of a fetched row: its name, the types its value decodes as, and whether
\* the value read as f64 is NaN or an infinity
Column(name, ok, nan) == [name |-> name, ok |-> ok, nan |-> nan]

ColumnNames == { "a", "b" }

OkSets ==
    { {}, {"String"}, {"i64", "f64", "i16", "i32"}, {"f64"}, {"bool", "i16"}, {"i16", "i32"},
      {"i32"}, Range(Probes) }

Columns ==
    { Column(name, ok, FALSE) : name \in ColumnNames, ok \in OkSets }
    \cup { Column(name, {"f64"}, TRUE) : name \in ColumnNames }

\* the rows fetch_all may give for the JOIN: up to MaxCols columns, names repeated or not
FetchedRows == UNION { [1..n -> Columns] : n \in 0..MaxCols }

ResultSets ==
    { << >> } \cup { <<row>> : row \in FetchedRows }
    \cup { <<row, <<Column("a", {"i32"}, FALSE)>> >> : row \in [1..1 -> Columns] }

\* what the engine may fetch for a statement; the rows of the SELECT are kept as
\* their number, in db
Fetched(st) == IF st = "db.query('main','JOIN')" THEN ResultSets ELSE { << >> }

Null == [as |-> "null"]

\* the JSON value of a column read as a type
Value(as, column) == [as |-> as, of |-> column]

\* the column a name stands for in the row: the map of names built over the columns
\* keeps, for a name, the index put in last
IndexOf(row, name) ==
    CHOOSE i \in 1..Len(row) :
        row[i].name = name /\ \A j \in (i + 1)..Len(row) : row[j].name # name

\* row.try_get::<T, _>(name)
try_get(row, T, name) ==
    IF T \in row[IndexOf(row, name)].ok THEN Some(row[IndexOf(row, name)]) ELSE None

\* serde_json::Number::from_f64(v): None for NaN and the infinities
from_f64(column) == IF column.nan THEN None ELSE Some(Value("f64", column))

\* the chain of try_get of query_fn
val_json(row, name) ==
    IF try_get(row, "String", name) # None THEN Value("String", try_get(row, "String", name)[1])
    ELSE IF try_get(row, "i64", name) # None THEN Value("i64", try_get(row, "i64", name)[1])
    ELSE IF try_get(row, "f64", name) # None
         THEN IF from_f64(try_get(row, "f64", name)[1]) # None
              THEN from_f64(try_get(row, "f64", name)[1])[1]
              ELSE Null
    ELSE IF try_get(row, "bool", name) # None THEN Value("bool", try_get(row, "bool", name)[1])
    ELSE IF try_get(row, "i16", name) # None THEN Value("i16", try_get(row, "i16", name)[1])
    ELSE IF try_get(row, "i32", name) # None THEN Value("i32", try_get(row, "i32", name)[1])
    ELSE Null

\* for col in row.columns() { row_obj.insert(name, val_json) }, from column i on
RECURSIVE row_obj(_, _, _)
row_obj(row, i, obj) ==
    IF i > Len(row) THEN obj
    ELSE row_obj(row, i + 1, Insert(obj, row[i].name, val_json(row, row[i].name)))

\* the rows as the script is given them
json_rows(rows) == [i \in 1..Len(rows) |-> row_obj(rows[i], 1, << >>)]

\* count as i32: the low 32 bits of the count, read as a signed number
AsI32(count) ==
    IF count[3] < (MaxU16 + 1) \div 2
    THEN count[3] * (MaxU16 + 1) + count[4]
    ELSE (count[3] - (MaxU16 + 1)) * (MaxU16 + 1) + count[4]

\* a global the script defines when it is not defined, and counts up
Bump == "n=(typeof n=='undefined'?0:n)+1"
ReturnN == "return {n:n}"

\* the values ReturnSpec is given: a script for each value returned, after a
\* setStatusCode or not
ReturnScripts ==
    { calls \o <<st>> : calls \in { << >>, <<"setStatusCode(201)">> }, st \in DOMAIN ReturnValue }

ReturnInputs == { MockInput(P_ab, GET, code, 200, "js") : code \in ReturnScripts }

\* the values ExecSpec is given: a script that updates rows and answers
K_update == <<"db.execute('main','UPDATE')", "return {ok:true}">>

ExecInputs == { MockInput(P_ab, GET, K_update, 200, "js") }

\* the values DecodeSpec is given: a script that joins tables and answers
K_join == <<"db.query('main','JOIN')", "return {ok:true}">>

DecodeInputs == { MockInput(P_ab, GET, K_join, 200, "js") }

\* the values ScriptSpec is given: the scripts the data file holds, each under its path
K_insert == <<"setStatusCode(201)", "db.execute('main','INSERT')", "throw boom">>
K_missing == <<"db.query('missing','SELECT 1')", "return {ok:true}">>
K_caught == <<"try{db.query('missing','SELECT 1')}catch(e){}", Bump, "setStatusCode(201)", ReturnN>>
K_select == <<"return db.query('main','SELECT')">>
K_lone == <<"db.query('<D800>','SELECT 1')", "return {ok:true}">>
K_delete == <<"db.execute('missing','DELETE')", "return {ok:true}">>

ScriptInputs ==
    { MockInput(<<"/", "1">>, GET, K_insert, 200, "js"),
      MockInput(<<"/", "2">>, GET, K_missing, 200, "js"),
      MockInput(<<"/", "3">>, GET, K_caught, 200, "js"),
      MockInput(<<"/", "4">>, GET, K_select, 200, "js"),
      MockInput(<<"/", "5">>, GET, K_lone, 200, "js"),
      MockInput(<<"/", "6">>, GET, K_delete, 200, "js") }

ScriptPaths == { in.path : in \in ScriptInputs }

\* the error of a name that has no pool
ConnErr(name) == <<"Connection '">> \o name \o <<"' not found">>

\* what the engine reports when a statement fails
EngineErr == <<"error returned from database">>

\* an interpreter that is kept from one invocation to the next
NewContext_Kept(code, status) ==
    [code |-> code, status |-> status, n |-> nret, call |-> "",
     pool |-> NoPool, writes |-> 0, value |-> 0, rows |-> << >>]

\* Context::default() and the bindings of this invocation: the script, the pending status,
\* no global of an earlier script; writes counts the statements this invocation had the
\* database execute, value is what the last db.execute returned to the script, rows what
\* the last db.query returned
NewContext(code, status) ==
    [code |-> code, status |-> status, n |-> 0, call |-> "",
     pool |-> NoPool, writes |-> 0, value |-> 0, rows |-> << >>]

NoCtx ==
    [code |-> << >>, status |-> 0, n |-> 0, call |-> "",
     pool |-> NoPool, writes |-> 0, value |-> 0, rows |-> << >>]

set_status_code(status, st) ==
    LET code == CodeAsU16(st)
    IN  IF code # None /\ ValidStatus(code[1]) THEN code[1] ELSE status

ScriptResult(final_status, v) ==
    IF v.kind = "string"
    THEN IF JsonParse(v.text) # None
         THEN Response(final_status, "application/json", JsonSerialize(JsonParse(v.text)[1]))
         ELSE Response(final_status, "text/plain", v.text)
    ELSE IF v.kind = "object"
         THEN Response(final_status, "text/plain", v.text)
         ELSE Response(final_status, "text/plain", Debug(v))

\* how a run of the interpreter ends: with the response of the invocation, at a call of
\* the database, or with the worker thread panicking
Ended(kind, response, c) == [kind |-> kind, resp |-> response, ctx |-> c]

\* an error that ends the script with the status the script had pending
Uncaught_PendingStatus(c, e) ==
    Ended("done", Response(c.status, "text/plain", <<"JS Error: ">> \o e), c)

\* context.eval gave Err(e): 500 and the text of the error
Uncaught(c, e) == Ended("done", JsError(e), c)

\* context.eval runs the statements up to the next call of the database
RECURSIVE Eval(_)
Eval(c) ==
    IF c.code = << >> THEN Ended("done", ScriptResult(c.status, JsUndefined), c)
    ELSE LET st == Head(c.code)
             rest == [c EXCEPT !.code = Tail(c.code)]
         IN  CASE IsSetStatus(st) -> Eval([rest EXCEPT !.status = set_status_code(c.status, st)])
               [] st = Bump -> Eval([rest EXCEPT !.n = c.n + 1])
               [] st = ReturnN ->
                    Ended("done", ScriptResult(c.status,
                              [kind |-> "object", text |-> <<"{", "n", ":">> \o ToText(c.n) \o <<"}">>]), rest)
               [] st \in DOMAIN ReturnValue -> Ended("done", ScriptResult(c.status, ReturnValue[st]), rest)
               [] st \in DOMAIN Thrown -> Uncaught(rest, Thrown[st])
               [] st \in DOMAIN DbCall ->
                    IF to_std_string(DbCall[st].name) = None THEN Ended("panic", NoResp, rest)
                    ELSE Ended("call", NoResp, [rest EXCEPT !.call = st])
               [] OTHER -> Uncaught(rest, <<"SyntaxError">>)

\* an error of the database that no script sees
Raise_Swallowed(c, e) == Eval([c EXCEPT !.call = ""])

\* the call of the database raised e: the catch block swallows it, or the script ends
Raise(c, e) ==
    IF DbCall[c.call].caught THEN Eval([c EXCEPT !.call = ""])
    ELSE Uncaught([c EXCEPT !.call = ""], e)

\* the call of the database gave its value: the rows as JSON text, or the count
Yield(c, rows) ==
    IF DbCall[c.call].returned
    THEN Ended("done", ScriptResult(c.status,
                   [kind |-> "object", text |-> <<"[">> \o ToText(rows) \o <<"]">>]),
               [c EXCEPT !.call = ""])
    ELSE Eval([c EXCEPT !.call = ""])

----------------------------------------------------------------------------
(* server.rs: handler and process_request, one task per request in flight *)

\* the log keeps the last LogCap records
LogCap == 100

Set(f, t, v) == [f EXCEPT ![t] = v]

\* handler is entered: the request is read, the clock is started; outcomes is what an observer of the matching, if there is one,
\* notes of the registry the request finds
Handle(t, method, path, headers, body, outcomes) ==
    /\ pc[t] = "idle"
    /\ Listening(server.tasks) # {}
    /\ req' = Set(req, t, [method |-> method, path |-> path, headers |-> headers, body |-> body])
    /\ pc' = Set(pc, t, "received")
    /\ inflight' = Append(inflight, t)
    /\ nreq' = nreq + 1
    /\ out' = Set(out, t, NoResp)
    /\ notified' = Set(notified, t, "")
    /\ seen' = Set(seen, t, outcomes)
    /\ UNCHANGED <<mocks, logs, logs_lock, mock, target, resp, rec, npush, nret,
                 db_connections, db_lock, db, ctx,
                 config, server, sent>>

\* a request with its headers and its body
Accept(t, method, path, headers, body) == Handle(t, method, path, headers, body, {})

\* a request with no header and an empty body
Receive(t, method, path) == Accept(t, method, path, << >>, << >>)

\* a request whose matching is observed
Watch(t, method, path) ==
    Handle(t, method, path, << >>, << >>, Outcomes(mocks, method, path))

\* process_request, first critical section on the registry, and the static strategies
Lookup(t) ==
    /\ pc[t] = "received"
    /\ LET mock_opt == ExactMatch(mocks, req[t].method, req[t].path)
       IN  /\ mock' = Set(mock, t, mock_opt)
           /\ IF mock_opt = None
              THEN /\ pc' = Set(pc, t, "scan")
                   /\ UNCHANGED <<target, resp, seen>>
              ELSE /\ seen' = Set(seen, t, {})
                   /\ CASE mock_opt[1].response_type = "js" ->
                             /\ pc' = Set(pc, t, "script")
                             /\ UNCHANGED <<target, resp>>
                        [] mock_opt[1].response_type = "proxy" ->
                             /\ target' = Set(target, t, ExactTarget(mock_opt[1], req[t].path))
                             /\ pc' = Set(pc, t, "forward")
                             /\ UNCHANGED resp
                        [] OTHER ->
                             /\ resp' = Set(resp, t, StaticResponse(mock_opt[1]))
                             /\ pc' = Set(pc, t, "responded")
                             /\ UNCHANGED target
    /\ UNCHANGED <<mocks, logs, logs_lock, req, rec, inflight, nreq, npush, nret,
                 db_connections, db_lock, db, ctx, out, notified,
                 config, server, sent>>

\* process_request, second critical section on the registry: the wildcard proxies
Scan(t) ==
    /\ pc[t] = "scan"
    /\ LET found == ProxyMatches(mocks, req[t].method, req[t].path)
       IN  IF found = {}
           THEN /\ resp' = Set(resp, t, NotFound(KeyOf(req[t].method, req[t].path)))
                /\ pc' = Set(pc, t, "responded")
                /\ UNCHANGED <<mock, target>>
           ELSE \E m \in found :
                /\ mock' = Set(mock, t, Some(m))
                /\ target' = Set(target, t,
                        WildcardTarget(m.response_body, req[t].path, Len(WildcardPrefix(m))))
                /\ pc' = Set(pc, t, "forward_wild")
                /\ UNCHANGED resp
    /\ seen' = Set(seen, t, {})
    /\ UNCHANGED <<mocks, logs, logs_lock, req, rec, inflight, nreq, npush, nret,
                 db_connections, db_lock, db, ctx, out, notified,
                 config, server, sent>>

\* what the task does after a run of the interpreter
Settle(t, r) ==
    /\ ctx' = Set(ctx, t, r.ctx)
    /\ CASE r.kind = "done" -> resp' = Set(resp, t, r.resp) /\ pc' = Set(pc, t, "responded")
         [] r.kind = "call" -> pc' = Set(pc, t, "db_get") /\ UNCHANGED resp
         [] OTHER -> pc' = Set(pc, t, "panicked") /\ UNCHANGED resp

\* the blocking worker evaluates the script in a fresh Context
RunScript(t) ==
    /\ pc[t] = "script"
    /\ Settle(t, Eval(NewContext(mock[t][1].response_body, StatusOrOk(mock[t][1].status_code))))
    /\ UNCHANGED <<mocks, logs, logs_lock, req, mock, target, rec, inflight, nreq, npush, nret,
                 db_connections, db_lock, db, out, notified,
                 config, server, sent, seen>>

\* a lookup that takes the pool out of the map
Cloned_Taken(conns, name) == Remove(conns, name)

\* conns.get(&conn_name_str).cloned(): the map after the lookup
Cloned(conns, name) == conns

\* query_fn and execute_fn: the pool is cloned out of the map under its lock, and the
\* lock is dropped; a name that has no pool raises the error in the script
DbGet(t) ==
    /\ pc[t] = "db_get"
    /\ db_lock = "free"
    /\ LET name == DbCall[ctx[t].call].name
       IN  /\ db_connections' = Cloned(db_connections, name)
           /\ IF name \in DOMAIN db_connections
              THEN /\ pc' = Set(pc, t, "db_wait")
                   /\ ctx' = Set(ctx, t, [ctx[t] EXCEPT !.pool = db_connections[name]])
                   /\ UNCHANGED resp
              ELSE Settle(t, Raise(ctx[t], ConnErr(name)))
    /\ UNCHANGED <<mocks, logs, logs_lock, req, mock, target, rec, inflight, nreq, npush, nret,
                 db_lock, db, out, notified,
                 config, server, sent, seen>>

\* a statement that runs on the pool the name has when the engine answers
Held_Looked(c, conns) ==
    IF DbCall[c.call].name \in DOMAIN conns THEN conns[DbCall[c.call].name] ELSE c.pool

\* fetch_all(&pool), execute(&pool): the statement runs on the clone the call took
Held(c, conns) == c.pool

\* the statement has run on the pool: fetch_all gives the rows, execute adds one
DbDone(t, count, rows) ==
    /\ pc[t] = "db_wait"
    /\ count \in Affected(ctx[t].call)
    /\ rows \in Fetched(ctx[t].call)
    /\ IF DbCall[ctx[t].call].fn = "execute"
       THEN /\ db' = [db EXCEPT ![Held(ctx[t], db_connections)] = Written(ctx[t].call, @)]
            /\ Settle(t, Yield([ctx[t] EXCEPT !.pool = NoPool, !.writes = @ + 1,
                                             !.value = AsI32(count)], 1))
       ELSE /\ UNCHANGED db
            /\ Settle(t, Yield([ctx[t] EXCEPT !.pool = NoPool, !.rows = json_rows(rows)],
                               db[Held(ctx[t], db_connections)]))
    /\ UNCHANGED <<mocks, logs, logs_lock, req, mock, target, rec, inflight, nreq, npush, nret,
                 db_connections, db_lock, out, notified,
                 config, server, sent, seen>>

\* the statement failed in the engine: the error is raised in the script
DbFail(t) ==
    /\ pc[t] = "db_wait"
    /\ Settle(t, Raise([ctx[t] EXCEPT !.pool = NoPool], EngineErr))
    /\ UNCHANGED <<mocks, logs, logs_lock, req, mock, target, rec, inflight, nreq, npush, nret,
                 db_connections, db_lock, db, out, notified,
                 config, server, sent, seen>>

\* the worker panicked on to_std_string().unwrap(): the JoinError is unwrapped in
\* process_request, the task of the request ends, its connection is closed unanswered
Unwind(t) ==
    /\ pc[t] = "panicked"
    /\ pc' = Set(pc, t, "idle")
    /\ req' = Set(req, t, NoReq)
    /\ mock' = Set(mock, t, None)
    /\ ctx' = Set(ctx, t, NoCtx)
    /\ inflight' = SelectSeq(inflight, LAMBDA u : u # t)
    /\ UNCHANGED <<mocks, logs, logs_lock, target, resp, rec, nreq, npush, nret,
                 db_connections, db_lock, db, out, notified,
                 config, server, sent, seen>>

\* client.request(method, &target_url), .header(k, v) for every header whose name is
\* not host (header appends, so every value of a name is sent), .body(body)
Forward(request, url) ==
    [method |-> request.method, url |-> url,
     headers |-> SelectSeq(request.headers, LAMBDA h : h[1] # "host"),
     body |-> request.body]

\* headers_mut.insert(k, v) for each pair of res.headers().iter(): insert puts the value
\* in the place of the values the name has, so each name is left with its last value
Inserted(headers) ==
    { headers[i] : i \in { i \in 1..Len(headers) :
                              \A j \in (i + 1)..Len(headers) : headers[j][1] # headers[i][1] } }

\* the response built of what the upstream answered
Relayed(status, headers, bytes) ==
    [Response(status, "upstream", bytes) EXCEPT !.headers = Inserted(headers)]

\* req_builder.send() succeeded: status, headers and body of the upstream are relayed
UpstreamReply(t, status, headers, bytes) ==
    /\ pc[t] \in {"forward", "forward_wild"}
    /\ sent' = Set(sent, t, Append(sent[t], Forward(req[t], target[t])))
    /\ resp' = Set(resp, t, Relayed(status, headers, bytes))
    /\ pc' = Set(pc, t, "responded")
    /\ UNCHANGED <<mocks, logs, logs_lock, req, mock, target, rec, inflight, nreq, npush, nret,
                 db_connections, db_lock, db, ctx, out, notified,
                 config, server, seen>>

\* a forwarder that sends the request again when the send has failed
SendFailed_Retry(at, e) == [pc |-> at, resp |-> NoResp]

\* Err(e) of send(): 502 and the text of the error, and process_request returns
SendFailed(at, e) == [pc |-> "responded", resp |-> ProxyError(e)]

\* req_builder.send() failed
UpstreamFail(t) ==
    /\ pc[t] \in {"forward", "forward_wild"}
    /\ sent' = Set(sent, t, Append(sent[t], Forward(req[t], target[t])))
    /\ resp' = Set(resp, t, SendFailed(pc[t], <<"connect">>).resp)
    /\ pc' = Set(pc, t, SendFailed(pc[t], <<"connect">>).pc)
    /\ UNCHANGED <<mocks, logs, logs_lock, req, mock, target, rec, inflight, nreq, npush, nret,
                 db_connections, db_lock, db, ctx, out, notified,
                 config, server, seen>>

\* response.into_parts(): the status and the headers on one side, the body on the other
into_parts(response) ==
    [parts |-> [status |-> response.status, ctype |-> response.ctype, headers |-> response.headers],
     body |-> response.body]

\* to_bytes(body, usize::MAX).await.unwrap_or_default(): every body process_request
\* builds is complete in memory, so reading it gives its bytes
to_bytes(body) == body

\* the text taken for every body, valid or not
from_utf8_Lossy(bytes) == Some(bytes)

\* String::from_utf8(..).ok()
from_utf8(bytes) == IF B_ff \in Range(bytes) THEN None ELSE Some(bytes)

\* the response rebuilt without the headers it was produced with
from_parts_NoHeaders(parts, bytes) == Response(parts.status, "", bytes)

\* Response::from_parts(parts, Body::from(bytes))
from_parts(parts, bytes) ==
    [Response(parts.status, parts.ctype, bytes) EXCEPT !.headers = parts.headers]

\* the record that takes 200 for the status of every response
BuildLog_Ok(id, request, response) ==
    [id |-> id, method |-> request.method, path |-> request.path, status_code |-> 200,
     response_body |-> from_utf8(to_bytes(into_parts(response).body))]

\* the record of a request; its uuid is the number of the insertion
BuildLog(id, request, response) ==
    [id |-> id, method |-> request.method, path |-> request.path,
     status_code |-> response.status,
     response_body |-> from_utf8(to_bytes(into_parts(response).body))]

\* a lock that is granted while another task holds it
CanLock_Always(holder) == TRUE

\* Mutex::lock on the log: granted when no task holds it
CanLock(holder) == holder = 0

push_front(q, x) == <<x>> \o q

\* the newest record dropped instead of the oldest
pop_back_Newest(q) == Tail(q)

pop_back(q) == SubSeq(q, 1, Len(q) - 1)

Trimmed(q) == IF Len(q) > LogCap THEN pop_back(q) ELSE q

\* handler builds the record, takes the lock of the log and pushes the record
PushLog(t) ==
    /\ pc[t] = "responded"
    /\ CanLock(logs_lock)
    /\ logs_lock' = t
    /\ LET log == BuildLog(npush + 1, req[t], resp[t])
       IN  /\ rec' = Set(rec, t, log)
           /\ logs' = push_front(logs, log)
    /\ npush' = npush + 1
    /\ pc' = Set(pc, t, "locked")
    /\ UNCHANGED <<mocks, req, mock, target, resp, inflight, nreq, nret,
                 db_connections, db_lock, db, ctx, out, notified,
                 config, server, sent, seen>>

\* still under the lock: the oldest record is dropped when the log is over its cap,
\* and the guard is dropped
TrimLog(t) ==
    /\ pc[t] = "locked"
    /\ logs' = Trimmed(logs)
    /\ logs_lock' = 0
    /\ pc' = Set(pc, t, "logged")
    /\ UNCHANGED <<mocks, req, mock, target, resp, rec, inflight, nreq, npush, nret,
                 db_connections, db_lock, db, ctx, out, notified,
                 config, server, sent, seen>>

\* handler notifies the observer, or fails to, or has none
Emit(t, outcome) ==
    /\ pc[t] = "logged"
    /\ pc' = Set(pc, t, "emitted")
    /\ notified' = Set(notified, t, outcome)
    /\ UNCHANGED <<mocks, logs, logs_lock, req, mock, target, resp, rec, inflight, nreq, npush, nret,
                 db_connections, db_lock, db, ctx, out,
                 config, server, sent, seen>>

\* handler returns the response it rebuilt
Return(t) ==
    /\ pc[t] = "emitted"
    /\ pc' = Set(pc, t, "idle")
    /\ LET split == into_parts(resp[t])
       IN  out' = Set(out, t, from_parts(split.parts, to_bytes(split.body)))
    /\ req' = Set(req, t, NoReq)
    /\ mock' = Set(mock, t, None)
    /\ target' = Set(target, t, << >>)
    /\ resp' = Set(resp, t, NoResp)
    /\ rec' = Set(rec, t, NoRec)
    /\ inflight' = SelectSeq(inflight, LAMBDA u : u # t)
    /\ nret' = nret + 1
    /\ ctx' = Set(ctx, t, NoCtx)
    /\ sent' = Set(sent, t, << >>)
    /\ UNCHANGED <<mocks, logs, logs_lock, nreq, npush,
                 db_connections, db_lock, db, notified,
                 config, server, seen>>

----------------------------------------------------------------------------
(* Specifications *)

\* load_mocks: the registry the data file holds
Loaded(inputs) ==
    [k \in { NewMock(in).id : in \in inputs } |->
        NewMock(CHOOSE in \in inputs : NewMock(in).id = k)]

\* run(): the state of AppState once setup has loaded the files, and the server tasks
\* there are
Setup(tasks, inputs, loaded_config, server_tasks) ==
    /\ mocks = Loaded(inputs)
    /\ logs = << >>
    /\ logs_lock = 0
    /\ pc = [t \in tasks |-> "idle"]
    /\ req = [t \in tasks |-> NoReq]
    /\ mock = [t \in tasks |-> None]
    /\ target = [t \in tasks |-> << >>]
    /\ resp = [t \in tasks |-> NoResp]
    /\ rec = [t \in tasks |-> NoRec]
    /\ inflight = << >>
    /\ nreq = 0
    /\ npush = 0
    /\ nret = 0
    /\ db_connections = << >>
    /\ db_lock = "free"
    /\ db = [url \in Databases |-> 0]
    /\ ctx = [t \in tasks |-> NoCtx]
    /\ out = [t \in tasks |-> NoResp]
    /\ notified = [t \in tasks |-> ""]
    /\ config = loaded_config
    /\ server = [tasks |-> server_tasks, cmds |-> << >>]
    /\ sent = [t \in tasks |-> << >>]
    /\ seen = [t \in tasks |-> {}]

\* the default config, the server task listening
InitWith(tasks, inputs) ==
    Setup(tasks, inputs, DefaultConfig, << Instance("listening", DefaultConfig.port, 0) >>)

InitFor(tasks) == InitWith(tasks, {})

Init == InitFor(Tasks)

Next ==
    \/ \E in \in AddInputs : add_mock_api(in)
    \/ \E id \in Ids : remove_mock_api(id)
    \/ \E id \in Ids, in \in UpdateInputs : update_mock_api(id, in)
    \/ \E t \in DOMAIN pc, r \in Requests : nreq < MaxReqs /\ Receive(t, r[1], r[2])
    \/ \E t \in DOMAIN pc : Lookup(t)
    \/ \E t \in DOMAIN pc : Scan(t)
    \/ \E t \in DOMAIN pc : RunScript(t)
    \/ \E t \in DOMAIN pc, status \in UpstreamStatuses, bytes \in UpstreamBodies : UpstreamReply(t, status, << >>, bytes)
    \/ \E t \in DOMAIN pc : UpstreamFail(t)
    \/ \E t \in DOMAIN pc : PushLog(t)
    \/ \E t \in DOMAIN pc : TrimLog(t)
    \/ \E t \in DOMAIN pc, outcome \in EmitOutcomes : Emit(t, outcome)
    \/ \E t \in DOMAIN pc : Return(t)

Spec == Init /\ [][Next]_vars

\* many requests against an unchanging registry, two in flight at a time
LogInit == InitFor(LogTasks)

LogNext ==
    \/ \E t \in DOMAIN pc : nreq < MaxLogReqs /\ Receive(t, GET, P_c)
    \/ \E t \in DOMAIN pc : Lookup(t)
    \/ \E t \in DOMAIN pc : Scan(t)
    \/ \E t \in DOMAIN pc : PushLog(t)
    \/ \E t \in DOMAIN pc : TrimLog(t)
    \/ \E t \in DOMAIN pc : Emit(t, "no observer")
    \/ \E t \in DOMAIN pc : Return(t)

LogSpec == LogInit /\ [][LogNext]_vars

\* one request against a registry of proxy definitions
ProxyNext ==
    \/ \E in \in ProxyInputs : Cardinality(DOMAIN mocks) < MaxProxyMocks /\ add_mock_api(in)
    \/ \E t \in DOMAIN pc, path \in ProxyPaths : nreq = 0 /\ Receive(t, GET, path)
    \/ \E t \in DOMAIN pc : Lookup(t)
    \/ \E t \in DOMAIN pc : Scan(t)
    \/ \E t \in DOMAIN pc, status \in UpstreamStatuses, bytes \in UpstreamBodies : UpstreamReply(t, status, << >>, bytes)
    \/ \E t \in DOMAIN pc : UpstreamFail(t)
    \/ \E t \in DOMAIN pc : PushLog(t)
    \/ \E t \in DOMAIN pc : TrimLog(t)
    \/ \E t \in DOMAIN pc, outcome \in EmitOutcomes : Emit(t, outcome)
    \/ \E t \in DOMAIN pc : Return(t)

ProxySpec == Init /\ [][ProxyNext]_vars

\* the server task from its spawn in setup on, the commands that stop and start it, one
\* at a time, the config changing, two definitions and the requests for them
ServerInputs ==
    { MockInput(P_c, GET, <<"x">>, 200, "raw"), MockInput(P_ab, GET, J_spaced, 201, "json") }

ServerInit ==
    \E loaded_config \in Configs :
        Setup(Tasks, ServerInputs, loaded_config,
              IF loaded_config.running THEN spawn(<< >>) ELSE << >>)

ServerNext ==
    \/ \E new_config \in Configs : update_server_config(new_config)
    \/ stop_server
    \/ server.cmds = << >> /\ start_server_cmd
    \/ server.cmds = << >> /\ restart_server
    \/ \E k \in 1..MaxInstances : Wake(k)
    \/ \E i \in 1..MaxInstances, ok \in BOOLEAN : start_server(i, ok)
    \/ \E i \in 1..MaxInstances : graceful_shutdown(i)
    \/ nreq = 0 /\ \E t \in DOMAIN pc, r \in Requests : Receive(t, r[1], r[2])
    \/ \E t \in DOMAIN pc : Lookup(t)
    \/ \E t \in DOMAIN pc : Scan(t)
    \/ \E t \in DOMAIN pc : PushLog(t)
    \/ \E t \in DOMAIN pc : TrimLog(t)
    \/ \E t \in DOMAIN pc : Emit(t, "no observer")
    \/ \E t \in DOMAIN pc : Return(t)

ServerSpec == ServerInit /\ [][ServerNext]_vars

\* the server tasks and the commands that stop and start them, called while others
\* sleep, the config changing
LifeNext ==
    \/ \E new_config \in Configs : update_server_config(new_config)
    \/ stop_server
    \/ start_server_cmd
    \/ restart_server
    \/ \E k \in 1..MaxInstances : Wake(k)
    \/ \E i \in 1..MaxInstances, ok \in BOOLEAN : start_server(i, ok)
    \/ \E i \in 1..MaxInstances : graceful_shutdown(i)

LifeSpec == ServerInit /\ [][LifeNext]_vars

\* the runtime runs the tasks it has spawned: while a spawned task waits to bind one of
\* them comes to its bind, and while a shutdown future can complete one is polled
LifeFairSpec ==
    /\ LifeSpec
    /\ WF_vars(\E i \in 1..MaxInstances, ok \in BOOLEAN : start_server(i, ok))
    /\ WF_vars(\E i \in 1..MaxInstances : graceful_shutdown(i))

\* a definition of every strategy, one request, and the commands that change the
\* registries and the config while it is handled
FrameInputs ==
    { MockInput(P_ab, GET, J_spaced, 201, "json"),
      MockInput(<<"/", "3">>, GET, K_caught, 200, "js"),
      MockInput(<<"/", "4">>, GET, K_select, 200, "js"),
      MockInput(<<"/", "a">>, ANY, U_slash, 200, "proxy"),
      MockInput(P_api, ANY, U_upstream, 200, "proxy") }

FrameRequests ==
    { <<GET, P_ab>>, <<GET, <<"/", "3">> >>, <<GET, <<"/", "4">> >>, <<GET, <<"/", "a">> >>,
      <<GET, P_users>>, <<GET, P_c>> }

FrameInit == InitWith(Tasks, FrameInputs)

FrameNext ==
    \/ \E new_config \in Configs : update_server_config(new_config)
    \/ add_mock_api(MockInput(P_c, GET, <<"h">>, 200, "html"))
    \/ add_db_connection(N_main, D_main)
    \/ remove_db_connection(N_main)
    \/ save_db_configs
    \/ nreq = 0 /\ \E t \in DOMAIN pc, r \in FrameRequests : Receive(t, r[1], r[2])
    \/ \E t \in DOMAIN pc : Lookup(t)
    \/ \E t \in DOMAIN pc : Scan(t)
    \/ \E t \in DOMAIN pc : RunScript(t)
    \/ \E t \in DOMAIN pc : DbGet(t)
    \/ \E t \in DOMAIN pc, count \in RowCounts : DbDone(t, count, << >>)
    \/ \E t \in DOMAIN pc : DbFail(t)
    \/ \E t \in DOMAIN pc, status \in UpstreamStatuses, bytes \in UpstreamBodies :
            UpstreamReply(t, status, << >>, bytes)
    \/ \E t \in DOMAIN pc : UpstreamFail(t)
    \/ \E t \in DOMAIN pc : PushLog(t)
    \/ \E t \in DOMAIN pc : TrimLog(t)
    \/ \E t \in DOMAIN pc : Emit(t, "no observer")
    \/ \E t \in DOMAIN pc : Return(t)

FrameSpec == FrameInit /\ [][FrameNext]_vars

\* one request to a proxy, with headers and a body, and what its upstream answers
ForwardInit == InitWith(Tasks, ForwardInputs)

ForwardNext ==
    \/ nreq = 0 /\ \E t \in DOMAIN pc, r \in ForwardRequests, headers \in RequestHeaders,
                        body \in RequestBodies : Accept(t, r[1], r[2], headers, body)
    \/ \E t \in DOMAIN pc : Lookup(t)
    \/ \E t \in DOMAIN pc : Scan(t)
    \/ \E t \in DOMAIN pc, status \in UpstreamStatuses, headers \in UpstreamHeaders,
            bytes \in UpstreamBodies : UpstreamReply(t, status, headers, bytes)
    \/ \E t \in DOMAIN pc : UpstreamFail(t)
    \/ \E t \in DOMAIN pc : PushLog(t)
    \/ \E t \in DOMAIN pc : TrimLog(t)
    \/ \E t \in DOMAIN pc : Emit(t, "no observer")
    \/ \E t \in DOMAIN pc : Return(t)

ForwardSpec == ForwardInit /\ [][ForwardNext]_vars

\* one static definition, then one request for it
StaticNext ==
    \/ mocks = << >> /\ \E status_code \in 0..MaxU16, response_type \in StaticTypes : add_mock_api(StaticInput(status_code, response_type))
    \/ mocks = << >> /\ \E in \in JsonInputs : add_mock_api(in)
    \/ nreq = 0 /\ mocks # << >> /\ \E t \in DOMAIN pc : Receive(t, GET, P_ab)
    \/ \E t \in DOMAIN pc : Lookup(t)

StaticSpec == Init /\ [][StaticNext]_vars

\* one script that sets the status, then one request for it
StatusNext ==
    \/ mocks = << >> /\ \E in \in StatusInputs : add_mock_api(in)
    \/ nreq = 0 /\ mocks # << >> /\ \E t \in DOMAIN pc : Receive(t, GET, P_ab)
    \/ \E t \in DOMAIN pc : Lookup(t)
    \/ \E t \in DOMAIN pc : RunScript(t)
    \/ \E t \in DOMAIN pc : PushLog(t)
    \/ \E t \in DOMAIN pc : TrimLog(t)
    \/ \E t \in DOMAIN pc : Emit(t, "no observer")
    \/ \E t \in DOMAIN pc : Return(t)

StatusSpec == Init /\ [][StatusNext]_vars

\* one script that returns a value, then one request for it
ReturnNext ==
    \/ mocks = << >> /\ \E in \in ReturnInputs : add_mock_api(in)
    \/ nreq = 0 /\ mocks # << >> /\ \E t \in DOMAIN pc : Receive(t, GET, P_ab)
    \/ \E t \in DOMAIN pc : Lookup(t)
    \/ \E t \in DOMAIN pc : RunScript(t)
    \/ \E t \in DOMAIN pc : PushLog(t)
    \/ \E t \in DOMAIN pc : TrimLog(t)
    \/ \E t \in DOMAIN pc : Emit(t, "no observer")
    \/ \E t \in DOMAIN pc : Return(t)

ReturnSpec == Init /\ [][ReturnNext]_vars

\* a script that updates rows, the engine reporting any count
ExecInit == InitWith(Tasks, ExecInputs)

ExecNext ==
    \/ add_db_connection(N_main, D_main)
    \/ remove_db_connection(N_main)
    \/ save_db_configs
    \/ nreq = 0 /\ \E t \in DOMAIN pc : Receive(t, GET, P_ab)
    \/ \E t \in DOMAIN pc : Lookup(t)
    \/ \E t \in DOMAIN pc : RunScript(t)
    \/ \E t \in DOMAIN pc : DbGet(t)
    \/ \E t \in DOMAIN pc, count \in RowCounts : DbDone(t, count, << >>)
    \/ \E t \in DOMAIN pc : DbFail(t)
    \/ \E t \in DOMAIN pc : PushLog(t)
    \/ \E t \in DOMAIN pc : TrimLog(t)
    \/ \E t \in DOMAIN pc : Emit(t, "no observer")
    \/ \E t \in DOMAIN pc : Return(t)

ExecSpec == ExecInit /\ [][ExecNext]_vars

\* a script that queries, the engine fetching any rows
DecodeInit == InitWith(Tasks, DecodeInputs)

DecodeNext ==
    \/ add_db_connection(N_main, D_main)
    \/ remove_db_connection(N_main)
    \/ save_db_configs
    \/ nreq = 0 /\ \E t \in DOMAIN pc : Receive(t, GET, P_ab)
    \/ \E t \in DOMAIN pc : Lookup(t)
    \/ \E t \in DOMAIN pc : RunScript(t)
    \/ \E t \in DOMAIN pc : DbGet(t)
    \/ \E t \in DOMAIN pc, rows \in ResultSets : DbDone(t, One, rows)
    \/ \E t \in DOMAIN pc : DbFail(t)
    \/ \E t \in DOMAIN pc : PushLog(t)
    \/ \E t \in DOMAIN pc : TrimLog(t)
    \/ \E t \in DOMAIN pc : Emit(t, "no observer")
    \/ \E t \in DOMAIN pc : Return(t)

DecodeSpec == DecodeInit /\ [][DecodeNext]_vars

\* the registry commands, and one request looked up
RegistryNext ==
    \/ \E in \in AddInputs : add_mock_api(in)
    \/ \E id \in Ids : remove_mock_api(id)
    \/ \E id \in Ids, in \in UpdateInputs : update_mock_api(id, in)
    \/ nreq = 0 /\ \E t \in DOMAIN pc, r \in Requests : Receive(t, r[1], r[2])
    \/ \E t \in DOMAIN pc : Lookup(t)

RegistrySpec == Init /\ [][RegistryNext]_vars

\* the registry commands running while one request is matched
RaceNext ==
    \/ \E in \in AddInputs : add_mock_api(in)
    \/ \E id \in Ids : remove_mock_api(id)
    \/ \E id \in Ids, in \in UpdateInputs : update_mock_api(id, in)
    \/ nreq = 0 /\ \E t \in DOMAIN pc, r \in Requests : Watch(t, r[1], r[2])
    \/ \E t \in DOMAIN pc : Lookup(t)
    \/ \E t \in DOMAIN pc : Scan(t)

RaceSpec == Init /\ [][RaceNext]_vars

\* scripts that call the database, two requests in flight, the connections changing
ScriptInit == InitWith(LogTasks, ScriptInputs)

ScriptNext ==
    \/ add_db_connection(N_main, D_main)
    \/ remove_db_connection(N_main)
    \/ save_db_configs
    \/ nreq < MaxScriptReqs /\ \E t \in DOMAIN pc, path \in ScriptPaths : Receive(t, GET, path)
    \/ \E t \in DOMAIN pc : Lookup(t)
    \/ \E t \in DOMAIN pc : RunScript(t)
    \/ \E t \in DOMAIN pc : DbGet(t)
    \/ \E t \in DOMAIN pc, count \in RowCounts : DbDone(t, count, << >>)
    \/ \E t \in DOMAIN pc : DbFail(t)
    \/ \E t \in DOMAIN pc : Unwind(t)
    \/ \E t \in DOMAIN pc : PushLog(t)
    \/ \E t \in DOMAIN pc : TrimLog(t)
    \/ \E t \in DOMAIN pc : Emit(t, "no observer")
    \/ \E t \in DOMAIN pc : Return(t)

ScriptSpec == ScriptInit /\ [][ScriptNext]_vars

\* a script that inserts and a script that selects, under the name "main", while the
\* connection of that name is added, removed and made anew to another database
PoolInputs ==
    { MockInput(<<"/", "1">>, GET, K_insert, 200, "js"),
      MockInput(<<"/", "4">>, GET, K_select, 200, "js") }

PoolInit == InitWith(Tasks, PoolInputs)

PoolNext ==
    \/ \E url \in Databases : add_db_connection(N_main, url)
    \/ remove_db_connection(N_main)
    \/ save_db_configs
    \/ nreq < MaxScriptReqs /\ \E t \in DOMAIN pc, in \in PoolInputs : Receive(t, GET, in.path)
    \/ \E t \in DOMAIN pc : Lookup(t)
    \/ \E t \in DOMAIN pc : RunScript(t)
    \/ \E t \in DOMAIN pc : DbGet(t)
    \/ \E t \in DOMAIN pc : DbDone(t, One, << >>)
    \/ \E t \in DOMAIN pc : DbFail(t)
    \/ \E t \in DOMAIN pc : PushLog(t)
    \/ \E t \in DOMAIN pc : TrimLog(t)
    \/ \E t \in DOMAIN pc : Emit(t, "no observer")
    \/ \E t \in DOMAIN pc : Return(t)

PoolSpec == PoolInit /\ [][PoolNext]_vars

----------------------------------------------------------------------------
(* The matcher *)

OwnKey(t) == req[t].method \o <<" ">> \o req[t].path

AnyKey(t) == <<"A", "N", "Y">> \o <<" ">> \o req[t].path

\* m may serve request r by prefix: a proxy definition whose path ends in '*', whose
\* method is ANY or r's, and whose path without the '*' is the beginning of r's path
MayServeByPrefix(m, r) ==
    /\ m.response_type = "proxy"
    /\ Len(m.path) >= 1
    /\ m.path[Len(m.path)] = "*"
    /\ (m.method = <<"A", "N", "Y">> \/ m.method = r.method)
    /\ Len(r.path) >= Len(m.path) - 1
    /\ \A i \in 1..(Len(m.path) - 1) : r.path[i] = m.path[i]

LooksUp(t) == pc[t] = "received" /\ pc'[t] # "received"

Scans(t) == pc[t] = "scan" /\ pc'[t] # "scan"

\* C1: the definition under the key of the request's own method is the one used, whatever
\* else is registered; the definition under the ANY key is used only when that key is
\* absent, and the wildcard proxies are scanned only when both keys are absent
C1_Precedence ==
    [][\A t \in DOMAIN pc :
         /\ LooksUp(t) =>
              /\ OwnKey(t) \in DOMAIN mocks => mock'[t] = <<mocks[OwnKey(t)]>>
              /\ (OwnKey(t) \notin DOMAIN mocks /\ AnyKey(t) \in DOMAIN mocks)
                    => mock'[t] = <<mocks[AnyKey(t)]>>
              /\ pc'[t] = "scan" <=> (OwnKey(t) \notin DOMAIN mocks /\ AnyKey(t) \notin DOMAIN mocks)
              /\ pc'[t] = "scan" => mock'[t] = << >>
         /\ (pc[t] # "forward_wild" /\ pc'[t] = "forward_wild") => Scans(t) /\ mock[t] = << >>
      ]_vars

\* a request served by the definition of its own method while an ANY definition for its
\* path and a wildcard proxy that could serve it are registered too
C1_Witness ==
    \E t \in DOMAIN pc :
        /\ pc[t] \in {"responded", "script", "forward"}
        /\ OwnKey(t) \in DOMAIN mocks
        /\ AnyKey(t) \in DOMAIN mocks
        /\ mock[t] = <<mocks[OwnKey(t)]>>
        /\ \E k \in DOMAIN mocks : MayServeByPrefix(mocks[k], req[t])

\* C2: when no definition is registered under the request's own method for its path, the
\* definition registered with method ANY for exactly that path serves the request,
\* whatever the request's method is
C2_AnyServes ==
    [][\A t \in DOMAIN pc :
         (LooksUp(t) /\ OwnKey(t) \notin DOMAIN mocks /\ AnyKey(t) \in DOMAIN mocks) =>
              LET m == mocks[AnyKey(t)]
              IN  /\ mock'[t] = <<m>>
                  /\ pc'[t] = CASE m.response_type = "js" -> "script"
                                [] m.response_type = "proxy" -> "forward"
                                [] OTHER -> "responded"
                  /\ m.response_type \notin {"js", "proxy"} => resp'[t].body = m.response_body
      ]_vars

\* a POST served by the ANY definition of its path while GET has a definition of its own
C2_Witness ==
    \E t \in DOMAIN pc :
        /\ pc[t] = "responded"
        /\ req[t].method = <<"P", "O", "S", "T">>
        /\ OwnKey(t) \notin DOMAIN mocks
        /\ AnyKey(t) \in DOMAIN mocks
        /\ (<<"G", "E", "T">> \o <<" ">> \o req[t].path) \in DOMAIN mocks
        /\ mock[t] = <<mocks[AnyKey(t)]>>
        /\ mocks[AnyKey(t)].method = <<"A", "N", "Y">>
        /\ resp[t].body = mocks[AnyKey(t)].response_body

Responds(t) == pc[t] # "responded" /\ pc'[t] = "responded"

\* the definition task t holds was registered for the method and the path of its request
HoldsOwn(t) ==
    /\ mock'[t] # << >>
    /\ mock'[t][1].method = req[t].method
    /\ mock'[t][1].path = req[t].path

\* another method than the request's has a definition for the request's path, ANY has none
OtherMethodOnly(t) ==
    /\ OwnKey(t) \notin DOMAIN mocks
    /\ AnyKey(t) \notin DOMAIN mocks
    /\ \E k \in DOMAIN mocks :
          mocks[k].path = req[t].path /\ mocks[k].method \notin {req[t].method, <<"A", "N", "Y">>}

\* C3 as stated: a request with the method and the path of a registered definition is
\* answered with the status configured in it, and a request with another method, when
\* ANY has no definition for the path, is answered 404
C3_Original ==
    [][\A t \in DOMAIN pc :
         /\ (Responds(t) /\ HoldsOwn(t)) => resp'[t].status = mock'[t][1].status_code
         /\ (Scans(t) /\ OtherMethodOnly(t)) => (pc'[t] = "responded" /\ resp'[t].status = 404)
      ]_vars

\* the second half of C3 as stated, alone
C3_OtherMethod404 ==
    [][\A t \in DOMAIN pc :
         (Scans(t) /\ OtherMethodOnly(t)) => (pc'[t] = "responded" /\ resp'[t].status = 404)
      ]_vars

HttpStatus(n) == IF 100 <= n /\ n <= 999 THEN n ELSE 200

\* C3 amended: a json, html or raw definition answers with its configured status, 200 when
\* that is no HTTP status, and with its body (the JSON document re-serialised when a json
\* body parses); a js definition answers with the status its script leaves, or 500; a
\* proxy definition with the status of the upstream, or 502; a request with another
\* method is answered 404 when ANY has no definition for the path and no wildcard proxy
\* may serve it
C3_Amended ==
    [][\A t \in DOMAIN pc :
         /\ (LooksUp(t) /\ OwnKey(t) \in DOMAIN mocks) =>
              LET m == mocks[OwnKey(t)]
              IN  m.response_type \notin {"js", "proxy"} =>
                    /\ pc'[t] = "responded"
                    /\ resp'[t].status = HttpStatus(m.status_code)
                    /\ resp'[t].body =
                          IF m.response_type = "json" /\ JsonParse(m.response_body) # << >>
                          THEN JsonParse(m.response_body)[1] ELSE m.response_body
         /\ (Responds(t) /\ HoldsOwn(t) /\ pc[t] = "script") =>
              resp'[t].status \in {500, HttpStatus(mock[t][1].status_code)}
                  \cup { StatusArg[c] : c \in Range(mock[t][1].response_body) \cap DOMAIN StatusArg }
         /\ (Responds(t) /\ HoldsOwn(t) /\ pc[t] = "forward") =>
              resp'[t].status \in UpstreamStatuses \cup {502}
         /\ (LooksUp(t) /\ OtherMethodOnly(t)) => pc'[t] = "scan"
         /\ (Scans(t) /\ ~ \E k \in DOMAIN mocks : MayServeByPrefix(mocks[k], req[t])) =>
              (pc'[t] = "responded" /\ resp'[t].status = 404)
      ]_vars

\* a request answered by the json definition of its own method: status 201 as configured,
\* the body the document without its white space
C3_Witness ==
    \E t \in DOMAIN pc :
        /\ pc[t] = "responded"
        /\ mock[t] # << >>
        /\ mock[t][1].id = OwnKey(t)
        /\ mock[t][1].response_type = "json"
        /\ mock[t][1].status_code = 201
        /\ resp[t].status = 201
        /\ resp[t].body = <<"{", "}">>

\* C4: the scan selects a definition only if it is of type proxy, its path ends in '*',
\* its method is ANY or the request's, and the request path begins with its path without
\* the '*'; it selects one of those whenever there is one
C4_FallbackEligible ==
    [][\A t \in DOMAIN pc :
         Scans(t) =>
            /\ pc'[t] = "forward_wild" <=> \E k \in DOMAIN mocks : MayServeByPrefix(mocks[k], req[t])
            /\ pc'[t] = "forward_wild" =>
                  \E k \in DOMAIN mocks :
                      mock'[t] = <<mocks[k]>> /\ MayServeByPrefix(mocks[k], req[t])
      ]_vars

\* a wildcard proxy was selected among two that may serve the request, while an html
\* definition whose '*' path and method fit the request is registered
C4_Witness ==
    \E t \in DOMAIN pc :
        /\ pc[t] = "forward_wild"
        /\ mock[t] # << >>
        /\ MayServeByPrefix(mock[t][1], req[t])
        /\ Cardinality({ k \in DOMAIN mocks : MayServeByPrefix(mocks[k], req[t]) }) >= 2
        /\ \E k \in DOMAIN mocks :
              /\ mocks[k].response_type = "html"
              /\ mocks[k].path = <<"/", "a", "/", "*">>
              /\ mocks[k].method = req[t].method
              /\ SubSeq(req[t].path, 1, 3) = <<"/", "a", "/">>

----------------------------------------------------------------------------
(* The proxy forwarder *)

\* the text s without the '/' it ends with, and without those it begins with
IsTrimmedEnd(base, s) ==
    \E i \in 0..Len(s) :
        /\ base = SubSeq(s, 1, i)
        /\ \A k \in (i + 1)..Len(s) : s[k] = "/"
        /\ (i = 0 \/ s[i] # "/")

IsTrimmedStart(rest, s) ==
    \E j \in 0..Len(s) :
        /\ rest = SubSeq(s, j + 1, Len(s))
        /\ \A k \in 1..j : s[k] = "/"
        /\ (j = Len(s) \/ s[j + 1] # "/")

Suffixes(s) == { SubSeq(s, i, Len(s)) : i \in 1..(Len(s) + 1) }

Prefixes(s) == { SubSeq(s, 1, i) : i \in 0..Len(s) }

\* C5: a request served by a wildcard proxy is forwarded to base + '/' + remainder, base
\* the response_body without its trailing '/', remainder the request path after the
\* matched prefix without its leading '/'; to base alone when the remainder is empty; and
\* /api/users/5 under "/api/*" to "http://upstream:9000" goes to
\* http://upstream:9000/users/5
C5_WildcardTarget ==
    \A t \in DOMAIN pc :
        pc[t] = "forward_wild" =>
            LET m == mock[t][1]
                after == SubSeq(req[t].path, Len(m.path), Len(req[t].path))
            IN  /\ \E base \in Prefixes(m.response_body), remainder \in Suffixes(after) :
                      /\ IsTrimmedEnd(base, m.response_body)
                      /\ IsTrimmedStart(remainder, after)
                      /\ target[t] = IF remainder = << >> THEN base
                                     ELSE base \o <<"/">> \o remainder
                /\ (m.path = P_api /\ m.response_body = U_upstream /\ req[t].path = P_users)
                      => target[t] = U_upstream \o <<"/", "u", "s", "e", "r", "s", "/", "5">>

\* //a under "/*" to "u//" is forwarded to u/a
C5_Witness ==
    \E t \in DOMAIN pc :
        /\ pc[t] = "forward_wild"
        /\ mock[t][1].path = <<"/", "*">>
        /\ mock[t][1].response_body = <<"u", "/", "/">>
        /\ req[t].path = <<"/", "/", "a">>
        /\ target[t] = <<"u", "/", "a">>

\* C6: a proxy definition hit by its exact key, of the request's method or of ANY, is
\* forwarded to its response_body as it stands
C6_ExactProxyTarget ==
    \A t \in DOMAIN pc :
        pc[t] = "forward" =>
            /\ mock[t] # << >>
            /\ mock[t][1].response_type = "proxy"
            /\ mock[t][1].id \in {OwnKey(t), AnyKey(t)}
            /\ target[t] = mock[t][1].response_body

\* GET /a forwarded to "u/" by the proxy definition under "ANY /a"
C6_Witness ==
    \E t \in DOMAIN pc :
        /\ pc[t] = "forward"
        /\ req[t].path = <<"/", "a">>
        /\ mock[t][1].id = AnyKey(t)
        /\ target[t] = <<"u", "/">>

\* C7: when neither key of the request is registered and no wildcard proxy may serve it,
\* the answer is 404 and its body names "{METHOD} {path}" of the request
C7_NotFoundNamesKey ==
    [][\A t \in DOMAIN pc :
         /\ (Scans(t) /\ ~ \E k \in DOMAIN mocks : MayServeByPrefix(mocks[k], req[t])) =>
              /\ pc'[t] = "responded"
              /\ resp'[t].status = 404
              /\ resp'[t].body = <<"Not Found: ">> \o req[t].method \o <<" ">> \o req[t].path
         /\ (Responds(t) /\ mock'[t] = << >>) => Scans(t) /\ resp'[t].status = 404
      ]_vars

\* GET /c answered 404 while the registry holds definitions, none of them for it
C7_Witness ==
    \E t \in DOMAIN pc :
        /\ pc[t] = "responded"
        /\ mock[t] = << >>
        /\ mocks # << >>
        /\ resp[t].status = 404
        /\ resp[t].body = <<"Not Found: ", "G", "E", "T", " ", "/", "c">>

----------------------------------------------------------------------------
(* The log recorder *)

Stored(t) == pc[t] \in {"logged", "emitted"}

Min(a, b) == IF a <= b THEN a ELSE b

\* C8: whoever reads the log, which takes its lock, finds at most 100 records, however
\* the requests in flight interleave; one task at a time is between taking and dropping
\* the lock
C8_LogBounded ==
    /\ logs_lock = 0 => Len(logs) <= 100
    /\ Len(logs) <= 101
    /\ Cardinality({ t \in DOMAIN pc : pc[t] = "locked" }) <= 1
    /\ \A t \in DOMAIN pc : pc[t] = "locked" <=> logs_lock = t

\* the log at its cap: one task has pushed the 101st record under the lock and not yet
\* dropped the oldest, the other has its response and waits for the lock
C8_Witness ==
    /\ logs_lock # 0
    /\ Len(logs) = 101
    /\ \E t \in DOMAIN pc : pc[t] = "responded"

C10_OneRecordPerResponse ==
    /\ npush = nret + Cardinality({ t \in DOMAIN pc : pc[t] = "locked" \/ Stored(t) })
    /\ logs_lock = 0 => Len(logs) = Min(npush, 100)
    /\ \A t \in DOMAIN pc :
          Stored(t) =>
             /\ Cardinality({ i \in 1..Len(logs) : logs[i].id = rec[t].id }) <= 1
             /\ npush - rec[t].id < 100 => \E i \in 1..Len(logs) : logs[i] = rec[t]
             /\ rec[t].method = req[t].method
             /\ rec[t].path = req[t].path
             /\ rec[t].status_code = resp[t].status

\* the record of a request answered 502, about to be returned
C10_Witness ==
    \E t \in DOMAIN pc :
        /\ pc[t] = "emitted"
        /\ resp[t].status = 502
        /\ logs[1] = rec[t]
        /\ rec[t].status_code = 502
        /\ npush = nret + 1

\* the example of C5 is reached
C5_Example ==
    \E t \in DOMAIN pc :
        /\ pc[t] = "forward_wild"
        /\ mock[t][1].path = P_api
        /\ req[t].path = P_users
        /\ target[t] = U_upstream \o <<"/", "u", "s", "e", "r", "s", "/", "5">>

\* a request whose remainder is empty goes to the base alone
C5_EmptyRemainder ==
    \E t \in DOMAIN pc :
        /\ pc[t] = "forward_wild"
        /\ mock[t][1].response_body = <<"u", "/">>
        /\ req[t].path = <<"/", "a", "/", "/">>
        /\ target[t] = <<"u">>

----------------------------------------------------------------------------
(* The dispatcher *)

\* handler has the response of process_request in hand and has not returned it
InHand(t) == pc[t] \in {"responded", "locked", "logged", "emitted"}

Returns(t) == pc[t] = "emitted" /\ pc'[t] = "idle"

\* C11: from the moment a strategy has produced the response until handler returns it,
\* no step (the capture of the body, the insertion in the log, the notification with any
\* of its outcomes) changes it or ends the request otherwise, and the response returned
\* has the status, the headers and the body that were produced
C11_ResponseUnchanged ==
    [][\A t \in DOMAIN pc :
         InHand(t) =>
            \/ InHand(t)' /\ resp'[t] = resp[t]
            \/ /\ Returns(t)
               /\ notified[t] \in {"no observer", "emitted", "emit failed"}
               /\ out'[t].status = resp[t].status
               /\ out'[t].ctype = resp[t].ctype
               /\ out'[t].body = resp[t].body
      ]_vars

\* a 502 of the proxy returned as produced, its record in the log, after emit failed
C11_Witness ==
    \E t \in DOMAIN pc :
        /\ pc[t] = "idle"
        /\ notified[t] = "emit failed"
        /\ out[t].status = 502
        /\ out[t].ctype = "text/plain"
        /\ out[t].body = <<"Proxy Error: ", "connect">>
        /\ Len(logs) = 1
        /\ logs[1].status_code = 502

Undecodable(bytes) == \E i \in 1..Len(bytes) : bytes[i] = "<FF>"

\* C12: a response whose body is not UTF-8 text gets its record all the same, with no
\* response body in it, and is returned with the bytes it was produced with; no step ends
\* the request otherwise
C12_UndecodableBody ==
    [][\A t \in DOMAIN pc :
         (InHand(t) /\ Undecodable(resp[t].body)) =>
            /\ pc'[t] = pc[t] => resp'[t] = resp[t] /\ rec'[t] = rec[t]
            /\ (pc[t] = "responded" /\ pc'[t] # pc[t]) =>
                  /\ pc'[t] = "locked"
                  /\ rec'[t].response_body = << >>
                  /\ rec'[t].status_code = resp[t].status
                  /\ logs' = <<rec'[t]>> \o logs
                  /\ resp'[t] = resp[t]
            /\ (pc[t] \in {"locked", "logged"} /\ pc'[t] # pc[t]) =>
                  InHand(t)' /\ resp'[t] = resp[t] /\ rec'[t] = rec[t]
            /\ (pc[t] = "emitted" /\ pc'[t] # pc[t]) =>
                  /\ pc'[t] = "idle"
                  /\ out'[t].status = resp[t].status
                  /\ out'[t].body = resp[t].body
      ]_vars

\* the bytes of an upstream that are no text were returned, and the record has no body
C12_Witness ==
    \E t \in DOMAIN pc :
        /\ pc[t] = "idle"
        /\ out[t].status = 204
        /\ out[t].body = <<"o", "<FF>">>
        /\ Len(logs) = 1
        /\ logs[1].status_code = 204
        /\ logs[1].response_body = << >>

----------------------------------------------------------------------------
(* The static responders *)

\* the request of t was answered by a definition that is neither a script nor a proxy
Static(t) ==
    /\ pc[t] = "responded"
    /\ mock[t] # << >>
    /\ mock[t][1].response_type \notin {"js", "proxy"}

\* the text is none of the JSON documents {}, [] and a digit, with white space or without
NotJson(s) ==
    LET dense == SelectSeq(s, LAMBDA c : c # " ")
    IN  dense \notin { <<"{", "}">>, <<"[", "]">> } /\ ~ (Len(dense) = 1 /\ dense[1] \in Range(Digits))

\* C13 as stated: a json definition whose body is no JSON answers with its configured
\* status and with the body as configured
C13_Original ==
    \A t \in DOMAIN pc :
        (Static(t) /\ mock[t][1].response_type = "json" /\ NotJson(mock[t][1].response_body)) =>
            /\ resp[t].status = mock[t][1].status_code
            /\ resp[t].body = mock[t][1].response_body

\* C13 amended: a json definition whose body is no JSON is answered, never refused: with
\* its configured status when that is an HTTP status and 200 when it is not, and with the
\* body as configured, character for character
C13_Amended ==
    /\ \A t \in DOMAIN pc :
          (Static(t) /\ mock[t][1].response_type = "json" /\ NotJson(mock[t][1].response_body)) =>
              /\ resp[t].status =
                    IF mock[t][1].status_code \in 100..999 THEN mock[t][1].status_code ELSE 200
              /\ resp[t].body = mock[t][1].response_body
    /\ \A t \in DOMAIN pc : pc[t] \notin {"panicked", "script", "scan"}

\* "{not valid json" configured with 201 is answered 201 with that text
C13_Witness ==
    \E t \in DOMAIN pc :
        /\ Static(t)
        /\ mock[t][1].response_type = "json"
        /\ mock[t][1].status_code = 201
        /\ resp[t].status = 201
        /\ resp[t].body = <<"{", "n", "o", "t", " ", "v", "a", "l", "i", "d", " ", "j", "s", "o", "n">>

\* C14: a json, html, raw or unknown-type definition answers with its status_code when
\* that is from 100 to 999, and with 200 for each other value from 0 to 65535
C14_StatusOrDefault ==
    \A t \in DOMAIN pc :
        Static(t) =>
            LET code == mock[t][1].status_code
            IN  /\ code \in 0..65535
                /\ (100 <= code /\ code <= 999) => resp[t].status = code
                /\ (code < 100 \/ code > 999) => resp[t].status = 200

\* the unknown type "text" configured with 65535 is answered 200
C14_Witness ==
    \E t \in DOMAIN pc :
        /\ Static(t)
        /\ mock[t][1].response_type = "text"
        /\ mock[t][1].status_code = 65535
        /\ resp[t].status = 200

----------------------------------------------------------------------------
(* The script sandbox *)

\* the status an argument of setStatusCode maps to: the whole part of a number, when
\* that is from 100 to 999; nothing for the other numbers, for text and for no argument
MapsTo(st) ==
    IF st \in DOMAIN StatusArg /\ StatusArg[st] \in 100..999 THEN <<StatusArg[st]>>
    ELSE IF st \in DOMAIN FractionArg /\ FractionArg[st] \in 100..999 THEN <<FractionArg[st]>>
    ELSE << >>

\* the status the last call that maps to one has set, or the default
RECURSIVE LastSet(_, _)
LastSet(code, default) ==
    IF code = << >> THEN default
    ELSE IF MapsTo(code[Len(code)]) # << >> THEN MapsTo(code[Len(code)])[1]
    ELSE LastSet(SubSeq(code, 1, Len(code) - 1), default)

\* the script of t has returned its object, having only set the status before
Completed(t) ==
    /\ pc[t] = "responded"
    /\ mock[t] # << >>
    /\ mock[t][1].response_type = "js"
    /\ mock[t][1].response_body[Len(mock[t][1].response_body)] = "return {ok:true}"
    /\ \A i \in 1..(Len(mock[t][1].response_body) - 1) :
          mock[t][1].response_body[i] \in DOMAIN StatusArg \cup DOMAIN FractionArg \cup DOMAIN OtherArg

\* C15 as stated: the status is what the last setStatusCode call with an argument that maps
\* to a status has set, or the status_code of the definition when there is no such call
C15_Original ==
    \A t \in DOMAIN pc :
        Completed(t) =>
            resp[t].status = LastSet(mock[t][1].response_body, mock[t][1].status_code)

\* C15 amended: the status is what the last setStatusCode call with an argument that maps
\* to a status has set, or, when there is no such call, the status_code of the definition,
\* 200 when that is no HTTP status; the calls with other arguments change nothing and
\* raise nothing, the script returns its object
C15_Amended ==
    \A t \in DOMAIN pc :
        Completed(t) =>
            /\ resp[t].status =
                  LastSet(mock[t][1].response_body,
                          IF mock[t][1].status_code \in 100..999 THEN mock[t][1].status_code ELSE 200)
            /\ resp[t].body = <<"{", "ok", ":", "true", "}">>

\* setStatusCode(201), then setStatusCode(65736), then the object: the answer is 201
C15_Witness ==
    \E t \in DOMAIN pc :
        /\ Completed(t)
        /\ mock[t][1].response_body = <<"setStatusCode(201)", "setStatusCode(65736)", "return {ok:true}">>
        /\ resp[t].status = 201
        /\ resp[t].body = <<"{", "ok", ":", "true", "}">>

\* the worker of t is in its script: before the first statement, or at a call of the
\* database
Scripting(t) == pc[t] \in {"script", "db_get", "db_wait"}

\* the worker of t takes a step of its script
ScriptStep(t) == Scripting(t) /\ <<pc[t], ctx[t]>> # <<pc'[t], ctx'[t]>>

\* the statements the script of t has before it at this step
Ahead(t) == IF pc[t] = "script" THEN mock[t][1].response_body ELSE ctx[t].code

\* the last statement the step has run, "" when it has run none
LastRun(t) ==
    LET k == Len(Ahead(t)) - Len(ctx'[t].code)
    IN  IF k > 0 THEN Ahead(t)[k] ELSE ""

\* the step is the end of the script by an error no catch block has taken
ErrorEnd(t) ==
    /\ ScriptStep(t)
    /\ pc'[t] = "responded"
    /\ Len(resp'[t].body) > 0
    /\ resp'[t].body[1] = "JS Error: "

\* what a step of the script of t leaves as it is: the registry of routes, the registry
\* of connections and its lock, the log and its lock, and every other request
OthersKept(t) ==
    /\ UNCHANGED <<mocks, db_connections, db_lock, logs, logs_lock, inflight, nreq, npush, nret>>
    /\ \A u \in DOMAIN pc \ {t} :
          /\ pc'[u] = pc[u] /\ req'[u] = req[u] /\ mock'[u] = mock[u] /\ resp'[u] = resp[u]
          /\ ctx'[u] = ctx[u] /\ rec'[u] = rec[u] /\ out'[u] = out[u]

\* the script of t ends by an error: 500 and the text, whatever status was pending
EndsBy500(t) ==
    /\ LastRun(t) \in DOMAIN Thrown =>
          /\ pc'[t] = "responded"
          /\ resp'[t] = Response(500, "text/plain", <<"JS Error: ">> \o Thrown[LastRun(t)])
    /\ (pc[t] = "db_get" /\ ~DbCall[ctx[t].call].caught
            /\ DbCall[ctx[t].call].name \notin DOMAIN db_connections) =>
          /\ pc'[t] = "responded"
          /\ resp'[t] = Response(500, "text/plain", <<"JS Error: ">> \o ConnErr(DbCall[ctx[t].call].name))
    /\ ErrorEnd(t) => resp'[t].status = 500 /\ resp'[t].ctype = "text/plain"

\* C16 as stated: an uncaught error of the script ends the invocation with 500 and the
\* text of the error, whatever setStatusCode has set before; no step of the script changes
\* the registry of routes, the registry of connections or another request, and a request
\* that ends by an error leaves nothing behind that a later request can see: the database
\* holds what it held before the request
C16_Original ==
    [][\A t \in DOMAIN pc :
         ScriptStep(t) =>
            /\ OthersKept(t)
            /\ EndsBy500(t)
            /\ ErrorEnd(t) => ctx'[t].writes = 0
      ]_vars

\* C16 amended: an uncaught error of the script ends the invocation with 500 and the text
\* of the error, whatever setStatusCode has set before; no step of the script changes the
\* registry of routes, the registry of connections, the log or another request; the
\* database changes only by a statement db.execute has completed, and what the script
\* had executed before the error stays executed
C16_Amended ==
    [][\A t \in DOMAIN pc :
         ScriptStep(t) =>
            /\ OthersKept(t)
            /\ EndsBy500(t)
            /\ db' # db =>
                  /\ pc[t] = "db_wait"
                  /\ DbCall[ctx[t].call].fn = "execute"
                  /\ \E url \in Databases : db' = [db EXCEPT ![url] = @ + 1]
                  /\ ctx'[t].writes = ctx[t].writes + 1
            /\ db' = db => ctx'[t].writes = ctx[t].writes
      ]_vars

\* setStatusCode(201), an INSERT, then throw: the answer is 500 "JS Error: boom" with 201
\* pending and the row inserted, while another request is in its own script
C16_Witness ==
    \E t, u \in DOMAIN pc :
        /\ t # u
        /\ pc[t] = "responded"
        /\ mock[t][1].response_body = K_insert
        /\ resp[t] = Response(500, "text/plain", <<"JS Error: ", "boom">>)
        /\ ctx[t].status = 201
        /\ ctx[t].writes = 1
        /\ db[D_main] = 1
        /\ Scripting(u)

\* the step runs a call of the database under a name the registry of connections lacks
CallsAbsent(t) ==
    /\ ScriptStep(t)
    /\ LastRun(t) \in DOMAIN DbCall
    /\ DbCall[LastRun(t)].name \notin DOMAIN db_connections

\* the step is the lookup of a name the registry of connections lacks
LooksUpAbsent(t) ==
    /\ ScriptStep(t)
    /\ pc[t] = "db_get"
    /\ DbCall[ctx[t].call].name \notin DOMAIN db_connections

\* C17 as stated: db.query or db.execute under a name the registry of connections lacks
\* raises an error in the script, never a fault of the worker: the call reaches the lookup,
\* the lookup raises "Connection '<name>' not found"; a catch block takes it and the
\* script goes on; uncaught, the request ends with 500 and that text; every other request
\* is left as it is
C17_Original ==
    [][\A t \in DOMAIN pc :
         /\ CallsAbsent(t) => pc'[t] = "db_get"
         /\ LooksUpAbsent(t) =>
               /\ OthersKept(t)
               /\ pc'[t] # "panicked"
               /\ IF DbCall[ctx[t].call].caught
                  THEN ~ErrorEnd(t)
                  ELSE /\ pc'[t] = "responded"
                       /\ resp'[t] = Response(500, "text/plain",
                              <<"JS Error: ", "Connection '">> \o DbCall[ctx[t].call].name
                                  \o <<"' not found">>)
      ]_vars

\* the script of t has run some of its statements in this invocation
Invoked(t) ==
    pc[t] \in {"db_get", "db_wait", "panicked", "responded", "locked", "logged", "emitted"}

\* the statements the script of t has run in this invocation
Run(t) ==
    SubSeq(mock[t][1].response_body, 1, Len(mock[t][1].response_body) - Len(ctx[t].code))

\* how many times the statements count the global n up
Bumps(code) == Cardinality({ i \in 1..Len(code) : code[i] = Bump })

\* an earlier request has been answered
Earlier == nret > 0 /\ Len(logs) > 0

\* C18: every invocation runs in an interpreter of its own: whatever requests were
\* answered before, the global n of the script holds the count of this invocation alone,
\* the pending status is what this invocation has set, from the default of its own
\* definition, and the script that counts n up once and returns it answers 201 {n:1}
C18_FreshInterpreter ==
    \A t \in DOMAIN pc :
        Invoked(t) =>
            /\ ctx[t].n = Bumps(Run(t))
            /\ ctx[t].status =
                  LastSet(Run(t), IF mock[t][1].status_code \in 100..999
                                  THEN mock[t][1].status_code ELSE 200)
            /\ (pc[t] = "responded" /\ mock[t][1].response_body = K_caught) =>
                  resp[t] = Response(201, "text/plain", <<"{", "n", ":", "1", "}">>)

\* the counting script answers {n:1} after the same route has been answered before, its
\* record in the log
C18_Witness ==
    \E t \in DOMAIN pc :
        /\ pc[t] = "responded"
        /\ mock[t][1].response_body = K_caught
        /\ resp[t] = Response(201, "text/plain", <<"{", "n", ":", "1", "}">>)
        /\ Earlier
        /\ \E i \in 1..Len(logs) :
              /\ logs[i].path = mock[t][1].path
              /\ logs[i].status_code = 201
              /\ logs[i].response_body = Some(<<"{", "n", ":", "1", "}">>)

----------------------------------------------------------------------------
(* The registry of routes *)

\* the definitions of the registry that have the derived key
WithKey(registry, key) ==
    { k \in DOMAIN registry : KeyOf(registry[k].method, registry[k].path) = key }

\* after the command the registry has as many definitions as before, one of them under
\* the key, the new one, and the lookup of its method and path returns it
Replaced(def) ==
    /\ Cardinality(DOMAIN mocks') = Cardinality(DOMAIN mocks)
    /\ WithKey(mocks', def.id) = { def.id }
    /\ mocks'[def.id] = def
    /\ ExactMatch(mocks', def.method, def.path) = Some(def)
    /\ \A k \in DOMAIN mocks \ { def.id } : k \in DOMAIN mocks' /\ mocks'[k] = mocks[k]

\* C19: every definition is stored under its derived key "{METHOD} {path}"; add_mock_api
\* with a definition whose key the registry has, and update_mock_api of a definition under
\* its own key, replace the definition: the size of the registry is unchanged and a
\* lookup returns the new definition
C19_ReplaceNotDuplicate ==
    [][/\ mocks' # mocks => \A k \in DOMAIN mocks' : WithKey(mocks', k) = { k } /\ mocks'[k].id = k
       /\ \A in \in AddInputs :
             (add_mock_api(in) /\ NewMock(in).id \in DOMAIN mocks) => Replaced(NewMock(in))
       /\ \A id \in Ids, in \in UpdateInputs :
             (update_mock_api(id, in) /\ id = NewMock(in).id /\ id \in DOMAIN mocks) =>
                 Replaced(NewMock(in))
      ]_vars

\* a request holds the definition it was matched with, and the registry has another one
\* under the same key, and that one only
C19_Witness ==
    \E t \in DOMAIN pc :
        /\ mock[t] # None
        /\ mock[t][1].response_type = "js"
        /\ DOMAIN mocks = { mock[t][1].id }
        /\ mocks[mock[t][1].id] = NewMock(MockInput(P_ab, GET, J_spaced, 201, "json"))

----------------------------------------------------------------------------
(* The locks *)

\* the task of t waits for the database, or for its upstream
InIoWait(t) == pc[t] \in {"db_wait", "forward", "forward_wild"}

\* the task of t is about to take the lock of the registry of connections
NeedsDbLock(t) == pc[t] = "db_get"

\* C20 as stated: no lock is held across a wait for I/O: no command holds the lock of the
\* registry of connections while it reads or writes the file of connections, so a script
\* at its lookup of a pool always gets the lock; and a task that waits for its query or
\* for its upstream holds no lock of the log
C20_Original ==
    /\ db_lock = "free"
    /\ \A t \in DOMAIN pc : NeedsDbLock(t) => db_lock = "free"
    /\ \A t \in DOMAIN pc : InIoWait(t) => logs_lock # t

----------------------------------------------------------------------------
(* The proxy forwarder: what is sent and what is relayed *)

Forwarding(t) == pc[t] \in {"forward", "forward_wild"}

\* C21: when send() fails for a proxied request, by exact key or by prefix, the answer is
\* 502 and "Proxy Error: " with the text of the error, the upstream has been sent the
\* request once, and it is sent nothing more before the response is returned
C21_FailureIs502Once ==
    [][\A t \in DOMAIN pc :
         /\ (Forwarding(t) /\ UpstreamFail(t)) =>
               /\ pc'[t] = "responded"
               /\ resp'[t] = Response(502, "text/plain", <<"Proxy Error: ", "connect">>)
               /\ sent[t] = << >>
               /\ Len(sent'[t]) = 1
               /\ sent'[t][1].url = target[t]
         /\ (InHand(t) /\ ~Returns(t)) => sent'[t] = sent[t]
         /\ Len(sent'[t]) <= 1
      ]_vars

\* the upstream of the prefix proxy could not be reached: 502, one request sent to
\* http://upstream:9000/users/5
C21_Witness ==
    \E t \in DOMAIN pc :
        /\ pc[t] = "logged"
        /\ mock[t][1].path = P_api
        /\ resp[t].status = 502
        /\ resp[t].body = <<"Proxy Error: ", "connect">>
        /\ Len(sent[t]) = 1
        /\ sent[t][1].url = U_upstream \o <<"/", "u", "s", "e", "r", "s", "/", "5">>
        /\ logs[1].status_code = 502

\* the values a name has among the headers
ValuesOf(headers, name) == { h[2] : h \in { g \in Range(headers) : g[1] = name } }

\* C22 as stated: the upstream is sent the method and the body of the request and every
\* header of it but host, each value of each name; when the upstream has answered, the
\* response has its status, its body, and every value of every header it answered with,
\* of the names it repeated as well
C22_Original ==
    [][\A t \in DOMAIN pc, status \in UpstreamStatuses, headers \in UpstreamHeaders,
          bytes \in UpstreamBodies :
         (Forwarding(t) /\ UpstreamReply(t, status, headers, bytes)) =>
            /\ Len(sent'[t]) = 1
            /\ sent'[t][1].method = req[t].method
            /\ sent'[t][1].body = req[t].body
            /\ \A h \in Range(req[t].headers) :
                  h[1] # "host" => h[2] \in ValuesOf(sent'[t][1].headers, h[1])
            /\ ValuesOf(sent'[t][1].headers, "host") = {}
            /\ resp'[t].status = status
            /\ resp'[t].body = bytes
            /\ \A h \in Range(headers) : h \in resp'[t].headers
      ]_vars

----------------------------------------------------------------------------
(* The dispatcher: every request is answered *)

\* a response a caller can read: a status of HTTP
WellFormed(r) == r.status \in 100..999

\* C23 as stated: every request the server has accepted ends by handler returning a
\* well-formed response; no failure inside (a script error, an argument a script gives to
\* a host function, a missing connection, an error of the engine, a failure in the worker
\* of the script) ends a request without one
C23_Original ==
    [][\A t \in DOMAIN pc :
         /\ pc'[t] # "panicked"
         /\ (pc[t] # "idle" /\ pc'[t] = "idle") => Returns(t) /\ WellFormed(out'[t])
      ]_vars

----------------------------------------------------------------------------
(* The server task *)

\* handler is entered for a new request
Accepts(t) == pc[t] = "idle" /\ pc'[t] # "idle"

\* C24: when the bind fails the server task ends and listens to nothing: the step changes
\* nothing but what has become of the task, the registries, the config, the log and the
\* requests in flight are as they were; no request is accepted while no task listens, a
\* task whose bind failed never listens, and a task listens only from the step in which
\* its bind succeeds, having been spawned at setup or by a start or restart command
C24_FailedBindServesNothing ==
    [][/\ \A i \in DOMAIN server.tasks :
             start_server(i, FALSE) =>
                 /\ server'.tasks[i].status = "bind failed"
                 /\ Listening(server'.tasks) = Listening(server.tasks)
                 /\ server'.cmds = server.cmds
                 /\ UNCHANGED <<mocks, logs, logs_lock, pc, req, mock, target, resp, rec,
                                inflight, nreq, npush, nret, db_connections, db_lock, db, ctx,
                                out, notified, config, sent, seen>>
       /\ Listening(server.tasks) = {} => \A t \in DOMAIN pc : ~Accepts(t)
       /\ \A i \in DOMAIN server.tasks :
             server.tasks[i].status = "bind failed" => server'.tasks[i].status = "bind failed"
       /\ \A i \in Listening(server'.tasks) \ Listening(server.tasks) :
             i \in DOMAIN server.tasks /\ server.tasks[i].status = "spawned"
      ]_vars

\* the bind of a task has failed after a request was served by another: the record of
\* the request is kept, the registry is as it was loaded, no request is in flight and no
\* task listens
C24_Witness ==
    /\ \E i \in DOMAIN server.tasks : server.tasks[i].status = "bind failed"
    /\ Listening(server.tasks) = {}
    /\ Len(logs) = 1
    /\ nret = 1
    /\ DOMAIN mocks = { KeyOf(GET, P_c), KeyOf(GET, P_ab) }
    /\ \A t \in DOMAIN pc : pc[t] = "idle"

----------------------------------------------------------------------------
(* The dispatcher: what a request changes *)

\* a task takes a step of handler
HandlerStep == \E t \in DOMAIN pc : pc'[t] # pc[t] \/ ctx'[t] # ctx[t]

\* C25: no step of handler (the lookup, the scan, a static answer, a script and its
\* setStatusCode, a call of the database, the forwarding, the logging, the return)
\* changes the registry of routes, the registry of connections or the binding config;
\* of the state the requests share, a step of handler changes the log only, and only
\* when it inserts its record
C25_RequestsChangeOnlyLog ==
    [][HandlerStep =>
          /\ mocks' = mocks
          /\ db_connections' = db_connections
          /\ config' = config
          /\ logs' # logs => \E t \in DOMAIN pc : pc[t] \in {"responded", "locked"}
      ]_vars

\* the request of a script that calls the database is answered and its record is in
\* the log, while the commands have changed the config, the pools and the registry
C25_Witness ==
    \E t \in DOMAIN pc :
        /\ pc[t] = "logged"
        /\ mock[t] # None
        /\ mock[t][1].response_body = K_select
        /\ Len(logs) = 1
        /\ config.port = 3001
        /\ DOMAIN db_connections = { N_main }
        /\ Cardinality(DOMAIN mocks) = 6

----------------------------------------------------------------------------
(* The script's return value *)

\* the value the script of the request has returned
Returned(t) == ReturnValue[mock[t][1].response_body[Len(mock[t][1].response_body)]]

\* the body the return value stands for: the JSON a text parses to, the text that
\* does not parse, the JSON text of an object, the language's text of a primitive
BodyOf(v) ==
    IF v.kind = "string" /\ JsonParse(v.text) # None
    THEN JsonSerialize(JsonParse(v.text)[1])
    ELSE v.text

\* C26: a script that returns answers with the body its value stands for: JSON for a
\* text that parses, the text as it is when it does not, the JSON text of an object,
\* and for a number, a boolean, null or undefined the text the language gives the value
C26_Original ==
    \A t \in DOMAIN pc :
        (pc[t] = "responded" /\ mock[t] # None) => resp[t].body = BodyOf(Returned(t))

\* the same without the primitives that are not text
C26_TextAndObjects ==
    \A t \in DOMAIN pc :
        (pc[t] = "responded" /\ mock[t] # None /\ Returned(t).kind \in {"string", "object"}) =>
            /\ resp[t].body = BodyOf(Returned(t))
            /\ resp[t].ctype = IF Returned(t).kind = "string" /\ JsonParse(Returned(t).text) # None
                               THEN "application/json" ELSE "text/plain"

----------------------------------------------------------------------------
(* db.execute: the count of rows affected *)

\* the i32 the script is given, as a u64
ToU64(v) == U64(0, 0, v \div (MaxU16 + 1), v % (MaxU16 + 1))

\* db.execute of task t has returned to the script, the engine having reported count
Executed(t, count) == DbDone(t, count, << >>) /\ DbCall[ctx[t].call].fn = "execute"

\* C27: whatever count the engine reports for the statement of db.execute, a u64, the
\* value the script is given is that count
C27_Original ==
    [][\A t \in DOMAIN pc, count \in RowCounts :
          Executed(t, count) => ctx'[t].value >= 0 /\ ToU64(ctx'[t].value) = count]_vars

\* the same for the counts below 2^31
C27_BelowTwoTo31 ==
    [][\A t \in DOMAIN pc, count \in RowCounts :
          (Executed(t, count) /\ count[1] = 0 /\ count[2] = 0 /\ count[3] < (MaxU16 + 1) \div 2) =>
              ctx'[t].value >= 0 /\ ToU64(ctx'[t].value) = count]_vars

----------------------------------------------------------------------------
(* db.query: the decoding of the rows *)

\* db.query of task t has returned to the script, the engine having fetched rows
Queried(t, rows) == DbDone(t, One, rows) /\ DbCall[ctx[t].call].fn = "query"

\* the first type of the order the column decodes as, none when there is none
RECURSIVE FirstProbe(_, _)
FirstProbe(column, i) ==
    IF i > Len(Probes) THEN None
    ELSE IF Probes[i] \in column.ok THEN Some(Probes[i]) ELSE FirstProbe(column, i + 1)

\* the value a column stands for: read as the first type that succeeds, null when
\* none does (and when the number read has no JSON form)
Taken(column) ==
    IF FirstProbe(column, 1) = None \/ (FirstProbe(column, 1) = Some("f64") /\ column.nan)
    THEN Null
    ELSE Value(FirstProbe(column, 1)[1], column)

\* row i of the fetched rows is decoded in the object the script is given: the object
\* has a member for every column, holding the value the column stands for
DecodedRow(row, obj) ==
    /\ Cardinality(DOMAIN obj) = Len(row)
    /\ \A j \in 1..Len(row) : row[j].name \in DOMAIN obj /\ obj[row[j].name] = Taken(row[j])

\* C28: db.query gives the script one object for each fetched row; every column of
\* the row appears in it, decoded as the first of text, i64, f64, bool, i16, i32 that
\* succeeds, and null when none does
C28_Original ==
    [][\A t \in DOMAIN pc, rows \in ResultSets :
          Queried(t, rows) =>
              /\ Len(ctx'[t].rows) = Len(rows)
              /\ \A i \in 1..Len(rows) : DecodedRow(rows[i], ctx'[t].rows[i])]_vars

\* no two columns of the row have one name
DistinctNames(row) == \A i, j \in 1..Len(row) : row[i].name = row[j].name => i = j

\* the same for the rows whose columns have distinct names
C28_DistinctNames ==
    [][\A t \in DOMAIN pc, rows \in ResultSets :
          (Queried(t, rows) /\ \A i \in 1..Len(rows) : DistinctNames(rows[i])) =>
              /\ Len(ctx'[t].rows) = Len(rows)
              /\ \A i \in 1..Len(rows) : DecodedRow(rows[i], ctx'[t].rows[i])]_vars

----------------------------------------------------------------------------
(* The matcher while the registry changes *)

\* the step in which the matching of the request of task t ends: the exact lookup
\* finds a definition, or the scan is made
Decides(t) ==
    \/ pc[t] = "received" /\ pc'[t] \notin {"received", "scan"}
    \/ pc[t] = "scan" /\ pc'[t] # "scan"

\* what the matching ended with: the definition chosen, or none for the 404
Decided(t) == IF pc'[t] = "responded" /\ pc[t] = "scan" THEN None ELSE mock'[t]

\* C29: whatever add, update and remove do while a request is matched, the definition
\* chosen (or the 404) is what the matcher gives for one of the states the registry
\* had between the receipt of the request and the end of its matching
C29_Original ==
    [][\A t \in DOMAIN pc : Decides(t) => Decided(t) \in seen[t]]_vars

\* the same for a request during whose matching the registry gave one outcome only
C29_Undisturbed ==
    [][\A t \in DOMAIN pc :
          (Decides(t) /\ Cardinality(seen[t]) = 1) => Decided(t) \in seen[t]]_vars

----------------------------------------------------------------------------
(* The registry: keys and entries *)

\* C30: after any add_mock_api, update_mock_api and remove_mock_api from the empty
\* registry, every entry is stored under the key "{method} {path}" of its own method
\* and path, its id is that key, its method is uppercase and its path starts with '/'
C30_EntriesKeyedByOwnFields ==
    \A k \in DOMAIN mocks :
        /\ k = KeyOf(mocks[k].method, mocks[k].path)
        /\ mocks[k].id = k
        /\ mocks[k].method = ToUppercase(mocks[k].method)
        /\ StartsWith(mocks[k].path, <<"/">>)

\* the registry holds the entry given as "a/*" with ANY and the one given with the
\* method "get", both under their normalized keys
C30_Witness ==
    /\ Cardinality(DOMAIN mocks) = 2
    /\ KeyOf(ANY, <<"/", "a", "/", "*">>) \in DOMAIN mocks
    /\ KeyOf(GET, P_ab) \in DOMAIN mocks
    /\ mocks[KeyOf(GET, P_ab)].response_body = Js_ok

----------------------------------------------------------------------------
(* update_mock_api: a definition moved to another key *)

\* the registry after the definition under id was given the fields of def, whose key
\* is not id: nothing under id, def alone under its key, the other entries as they were
Moved(id, def) ==
    /\ id \notin DOMAIN mocks'
    /\ WithKey(mocks', def.id) = { def.id }
    /\ mocks'[def.id] = def
    /\ DOMAIN mocks' = (DOMAIN mocks \ { id }) \cup { def.id }
    /\ \A k \in DOMAIN mocks \ { id, def.id } : mocks'[k] = mocks[k]
    /\ id \notin DOMAIN mocks => mocks' = Insert(mocks, def.id, def)

\* C31: update_mock_api(id, ..) with a method and a path whose key is not id removes
\* the entry under id when there is one and leaves the new definition, alone, under
\* the new key; the entries under the other keys are unchanged, and with an id the
\* registry does not have the command does what add_mock_api does
C31_UpdateMovesEntry ==
    [][\A id \in Ids, in \in UpdateInputs :
          (update_mock_api(id, in) /\ NewMock(in).id # id) => Moved(id, NewMock(in))]_vars

\* a request holds the definition it was matched with under GET /a/b; the registry has
\* nothing under that key any more, and the proxy of the update under ANY /a/*, beside
\* an entry the update did not touch
C31_Witness ==
    \E t \in DOMAIN pc :
        /\ mock[t] # None
        /\ mock[t][1].id = KeyOf(GET, P_ab)
        /\ DOMAIN mocks = { KeyOf(ANY, <<"/", "a", "/", "*">>), KeyOf(GET, P_Star) }
        /\ mocks[KeyOf(ANY, <<"/", "a", "/", "*">>)] =
               NewMock(MockInput(<<"a", "/", "*">>, ANY, U_slash, 200, "proxy"))

----------------------------------------------------------------------------
(* The server tasks: how many accept *)

\* C32: whatever start_server_cmd, restart_server, stop_server and update_server_config
\* are called, one after the other or while another sleeps, at most one server task
\* accepts requests at any time
C32_Original == Cardinality(Listening(server.tasks)) <= 1

\* the same, not counting a task that has been sent the signal and has yet to stop
C32_NotCountingSignalled ==
    Cardinality({ i \in Listening(server.tasks) : server.tasks[i].rx = 0 }) <= 1

----------------------------------------------------------------------------
(* The shutdown signal *)

\* the i-th task has been spawned, has not returned, and its receiver holds a signal
Signalled(i) ==
    i \in DOMAIN server.tasks /\ Alive(server.tasks[i]) /\ server.tasks[i].rx > 0

\* the i-th task has returned: it accepts nothing
HasReturned(i) == i \in DOMAIN server.tasks /\ ~Alive(server.tasks[i])

\* C33: stop_server queues the signal for every task that has subscribed and has not
\* returned, and spawns nothing; a task that holds a signal, one or several, whether it
\* listens or has yet to bind, ends; a task is spawned with no signal, whatever was
\* sent before, and a task stops only on a signal it holds
C33_SignalStopsSubscribers ==
    /\ [][/\ stop_server =>
                /\ \A i \in DOMAIN server.tasks : Alive(server.tasks[i]) => Signalled(i)'
                /\ Len(server'.tasks) = Len(server.tasks)
                /\ \A i \in DOMAIN server.tasks : server'.tasks[i].status = server.tasks[i].status
                /\ server'.cmds = server.cmds
          /\ \A i \in DOMAIN server'.tasks \ DOMAIN server.tasks :
                server'.tasks[i] = Instance("spawned", 0, 0)
          /\ \A i \in DOMAIN server.tasks :
                (server.tasks[i].status = "listening" /\ server'.tasks[i].status # "listening") =>
                    server.tasks[i].rx > 0
         ]_vars
    /\ \A i \in 1..MaxInstances : Signalled(i) ~> HasReturned(i)

\* a task has stopped, and another, which has yet to bind, holds more signals than the
\* channel keeps
C33_Witness ==
    /\ \E i \in DOMAIN server.tasks : server.tasks[i].status = "stopped"
    /\ \E i \in DOMAIN server.tasks :
          server.tasks[i].status = "spawned" /\ server.tasks[i].rx = 2

(* restart_server *)

\* a restart_server, and no other command, is in its sleep with n tasks spawned so far;
\* every task that has not returned holds its signal, and the config says not running
RestartedOff(n) ==
    /\ server.cmds = << "restart_server" >>
    /\ Len(server.tasks) = n
    /\ \A i \in DOMAIN server.tasks : Alive(server.tasks[i]) => server.tasks[i].rx > 0
    /\ ~config.running

\* C34: at startup a server task is spawned exactly when the loaded config says running;
\* restart_server signals every task that has not returned and then sleeps, spawning
\* nothing yet; when its sleep is over it spawns one task if config.running is true at
\* that moment and none if it is false; after a restart with running false, once the
\* signalled tasks have stopped no task listens, unless a task has been spawned since
C34_RestartFollowsRunning ==
    /\ server.cmds = << >>
    /\ (server.tasks # << >>) <=> config.running
    /\ server.tasks \in { << >>, << Instance("spawned", 0, 0) >> }
    /\ [][/\ restart_server =>
                /\ \A i \in DOMAIN server.tasks : Alive(server.tasks[i]) => Signalled(i)'
                /\ Len(server'.tasks) = Len(server.tasks)
                /\ \A i \in DOMAIN server.tasks : server'.tasks[i].status = server.tasks[i].status
                /\ server'.cmds = Append(server.cmds, "restart_server")
          /\ \A k \in DOMAIN server.cmds :
                (Wake(k) /\ server.cmds[k] = "restart_server") =>
                    /\ server'.cmds = Without(server.cmds, k)
                    /\ server'.tasks = IF config.running
                                       THEN Append(server.tasks, Instance("spawned", 0, 0))
                                       ELSE server.tasks
         ]_vars
    /\ \A n \in 0..MaxInstances :
          RestartedOff(n) ~> (Listening(server.tasks) = {} \/ Len(server.tasks) > n)

\* a restart is in its sleep; its signal is the only one the listening task holds, and
\* the config says not running
C34_Witness ==
    /\ server.cmds = << "restart_server" >>
    /\ ~config.running
    /\ Len(server.tasks) = 1
    /\ server.tasks[1].status = "listening"
    /\ server.tasks[1].rx = 1

----------------------------------------------------------------------------
(* The pool a database call works on *)

\* the name the script of t has called the database with
Called(t) == DbCall[ctx[t].call].name

\* C35: a call of the database looks its name up in the registry of connections as the
\* registry is at the lookup, so a connection added since the script started is found,
\* and holds the pool it found; while the statement is in flight no command on the
\* registry changes what the call holds or ends the call, the statement can complete
\* whether the name has been removed or given another pool, and it reads and writes
\* the database of the pool it holds and no other
C35_CallHoldsItsPool ==
    [][\A t \in DOMAIN pc :
         /\ (pc[t] = "db_get" /\ pc'[t] # "db_get") =>
                IF Called(t) \in DOMAIN db_connections
                THEN pc'[t] = "db_wait" /\ ctx'[t].pool = db_connections[Called(t)]
                ELSE pc'[t] # "db_wait"
         /\ (pc[t] = "db_wait" /\ pc'[t] = "db_wait") => ctx'[t] = ctx[t]
         /\ pc[t] = "db_wait" =>
                /\ ctx[t].pool \in Databases
                /\ ENABLED DbDone(t, One, << >>)
         /\ (pc[t] = "db_wait" /\ pc'[t] # "db_wait") =>
                /\ \A url \in Databases \ { ctx[t].pool } : db'[url] = db[url]
                /\ db'[ctx[t].pool] \in { db[ctx[t].pool], db[ctx[t].pool] + 1 }
                /\ (DbCall[ctx[t].call].returned /\ pc'[t] = "responded"
                        /\ resp'[t].status = 200) =>
                       resp'[t].body = <<"[">> \o ToText(db[ctx[t].pool]) \o <<"]">>
      ]_vars

\* an INSERT is in flight on the pool of the first database; the name has been given
\* the pool of the other database since, and the command has returned
C35_Witness ==
    \E t \in DOMAIN pc :
        /\ pc[t] = "db_wait"
        /\ ctx[t].call = "db.execute('main','INSERT')"
        /\ ctx[t].pool = D_main
        /\ db_connections = (N_main :> D_other)
        /\ db_lock = "free"
        /\ db[D_main] = 1

====
